---- MODULE Spec2Model ----
(***************************************************************************)
(* A model of the lazy Dataset pipeline of flazy (src/flazy/datasets.py)   *)
(* and of its merge nodes (src/fescador/mux.py).  Every node kind is       *)
(* modelled by the state of one iteration of it (the generator's local     *)
(* variables), the records it has emitted and what it has asked of its     *)
(* upstream.  Each node kind has a specification of its own; the variables *)
(* of the other node kinds stay at their idle values in it.                *)
(***************************************************************************)
EXTENDS Integers, Sequences, FiniteSets, TLC

VARIABLES
    \* A Mux over the upstreams 1..NumUp (src/fescador/mux.py)
    muxKind,      \* "roundrobin" or "sequential"
    muxLens,      \* muxLens[d]: the number of records of upstream d
    muxFail,      \* None, or <<d, p>>: upstream d raises when asked for the
                  \* record at position p
    muxPc,        \* "new", "while", "for", "yielded", "done", "raised", "abandoned"
    muxIters,     \* the local list `iterators`: upstream ids still in it
    muxIdx,       \* RoundRobinMux: the index the running `for iterator in
                  \* iterators` is at; SequentialMux: the datasets done with
    muxPos,       \* muxPos[d]: records already taken from upstream d's iterator
    muxOpen,      \* the upstreams whose iterator has given a record and has
                  \* neither ended nor been closed
    muxTrace,     \* the consumer holds an exception that left the mux
    muxStopped,   \* the upstreams whose iterator has raised StopIteration
    muxOut        \* the records emitted, <<d, j>> being record j of upstream d

VARIABLES
    \* SlicedDataset (take, D[start:stop:step]) over a source of slN records;
    \* the record at position p of the source is written p
    slN,          \* the number of records of the upstream
    slArgs,       \* the arguments of the construction, as given
    slStart,      \* self.start
    slStop,       \* self.stop
    slStep,       \* self.step
    slPc,         \* "new", "loop", "done"
    slCount,      \* the local `count`
    slPulled,     \* records the iteration has taken from the upstream iterator
    slOpen,       \* upstream iterators opened and not yet closed
    slOut         \* the records emitted

VARIABLES
    \* A graph  base <- up <- top : a base node (an in-memory source of exN
    \* records, a Mux, or a Cache over such a source) and two
    \* TransformedDataset stages (map, filter, ...) built on it
    exBase,       \* "source", "mux", "cache"
    exN,          \* the number of records of the in-memory source
    exCache,      \* CachedDataset.cache: None until the Cache is constructed
    exCfg,        \* exCfg[k]: executor_config of stage k (1: up, 2: top), None
                  \* while the stage is not constructed
    exResolved,   \* what the last call of executor() returned or raised
    exWho,        \* the stage whose iteration made that call (0: none yet)
    exOpens,      \* iterations of the in-memory source started so far
    exPulled,     \* records taken from the in-memory source so far
    exReplay      \* the records of the last iteration of the Cache

VARIABLES
    \* RepeatedDataset over a source of rpN records
    rpN,          \* the number of records of the upstream
    rpTimes,      \* self.times
    rpPc,         \* "new", "outer", "inner", "done"
    rpLimit,      \* the iterable of the outer `for`: Some(n) for range(n),
                  \* None for the endless iter(int, 1)
    rpCycle,      \* passes of the outer `for` started
    rpPos,        \* records taken from the upstream iterator of this pass
    rpOpen,       \* upstream iterators opened and not yet closed
    rpOut         \* the records emitted

VARIABLES
    \* InMemoryDataset of smN records
    smKind,       \* "single": Dataset(seq); "tuple": Dataset(seq1, seq2, ...);
                  \* "dict": Dataset(key1=seq1, ...)
    smN,          \* the number of records
    smPc,         \* "rest", "iter", "done"
    smPos,        \* the position of the iterator over self._items in use
    smOut,        \* the records the running (or last) iteration has emitted
    smRuns,       \* iterations started
    smFirstRun,   \* what the first iteration driven to its end emitted
    smFirst       \* self._first

VARIABLES
    \* Two ShuffledDataset nodes with the same seed and buffer size over the
    \* same upstream; at most one of them is being iterated
    shSrc,        \* the records of the upstream
    shK,          \* self.buffer_size
    shSeed,       \* the seed given to both nodes
    shRng,        \* shRng[v]: the state of node v's self.random
    shNode,       \* the node being iterated (0: none yet)
    shPc,         \* "rest", "fill", "loop", "swap", "drain", "done", "error"
    shBuf,        \* the local `buffer`
    shSize,       \* the local `buffer_size`
    shPos,        \* records taken from the upstream iterator
    shItem,       \* the local `item` of `for item in iterator`: the record
                  \* taken and not yet stored in the buffer
    shDrain,      \* the index the draining `for item in buffer` is at
    shOut,        \* the records the running (or last) iteration has emitted
    shRuns,       \* iterations started
    shRef         \* what the first iteration driven to its end emitted

VARIABLES
    \* One TransformedDataset stage (map, filter, starmap, flatmap) over an
    \* upstream of records
    trKind,       \* "map", "filter", "starmap", "flatmap"
    trSrc,        \* the records of the upstream
    trFn,         \* what the caller's function has done on the calls made so
                  \* far: a function from calls <<mode, record>> to results
    trPc,         \* "new", "pull", "call", "again", "yield", "done", "raised"
    trPos,        \* records taken from the upstream iterator
    trOpen,       \* the upstream iterator is open (opened and not closed)
    trCalls,      \* the calls of the function made, in order
    trSub,        \* what is still to be yielded for the record pulled last
    trOut,        \* the records emitted
    trThrown,     \* the exception the function raised, None if none
    trExc         \* the exception that reached the consumer, None if none

VARIABLES
    \* MiniBatchDataset over a source of btN records
    btN,          \* the number of records of the upstream
    btSize,       \* self.size
    btPc,         \* "new", "collect", "done"
    btPos,        \* records taken from the upstream iterator
    btWin,        \* the list the comprehension has collected so far
    btOpen,       \* the upstream iterator is open (opened and not closed)
    btOut         \* the batches emitted

VARIABLES
    \* A chain  tfrecord(path) -> map -> ... -> map -> take(n)
    chM,          \* the number of map stages between the source and take
    chN,          \* the number of records in the file
    chStop,       \* self.stop of the SlicedDataset
    chFail,       \* None, or <<k, p>>: the record at position p makes stage k
                  \* raise (k = 0: read_records, k > 0: the mapper of stage k)
    chStat,       \* chStat[x]: "unstarted", "suspended" or "finished"
    chTrace,      \* the generators whose frames the traceback of the exception
                  \* held by the consumer refers to
    chPos,        \* records read_records has taken from the file
    chCount,      \* the local `count` of SlicedDataset.__iter__
    chOut,        \* the number of records emitted by take
    chEnd         \* "none", "exhausted", "stopped", "exception", "abandoned"

VARIABLES
    \* The eager operations and the lazy constructors on one dataset
    egBase,       \* "source" (an InMemoryDataset) or "mux"
    egN,          \* the number of records the dataset yields
    egFirst,      \* self._first: None or Some(record)
    egShape,      \* self._shape is set
    egTypes,      \* self._types is set
    egGot,        \* None, or <<i, p>>: the last D[i] returned the record at position p
    egOut         \* egOut[op]: what the last call of op gave: "none" (not
                  \* called), "value", "node" or the exception raised

VARIABLES
    \* One call of train_dataset or validation_dataset
    dsModule,     \* "data_handlers" or "datasets": the module of the function
    dsFn,         \* "train_dataset" or "validation_dataset"
    dsGiven,      \* the number of dataset names given
    dsOpts,       \* the keyword arguments, by their truth values
    dsPc,         \* "new", "build", "list", "returned", "raised"
    dsNames,      \* the number of names in use after the check
    dsDone,       \* paths gone through by validation_dataset
    dsFiles,      \* files found so far
    dsListed,     \* calls of os.listdir made
    dsNodes,      \* Dataset nodes built
    dsErr         \* the exception raised, None if none

VARIABLES
    \* Construction of a chain of nodes
    lnKinds,      \* the kinds of the nodes built, node 1 first
    lnPc,         \* "new" or "built"
    lnStarted,    \* the nodes a consumer has started to iterate
    lnOpened,     \* the nodes whose __iter__ has run
    lnAsked       \* the nodes that were asked for a record

VARIABLES
    \* The memos of first(), shape() and types() of one node
    mmUp,         \* the records the upstream produces now
    mmAttr,       \* self._first, self._shape, self._types
    mmPulled,     \* records taken from the upstream so far
    mmRet,        \* per operation, the first value it returned
    mmLast,       \* per operation, the outcome of its last call
    mmAgain       \* per operation, whether a call after the first return pulled

VARIABLES
    \* One iteration of skip(count) or of a PrependedDataset
    skKind,       \* "skip" or "prepend"
    skN,          \* records of the upstream
    skCount,      \* the count of skip
    skFail,       \* the position at which the upstream raises, None if none
    skPc,         \* "new", "other", "loop", "yielded", "done", "raised", "abandoned"
    skIts,        \* the two iterators on the upstream: "none", "open", "closed"
    skOpens,      \* calls of iter() on the upstream
    skPos,        \* records taken from the upstream
    skOut         \* records emitted

VARIABLES
    \* Requests for the next record of repeat(), of a mux or of a batch on it
    erTop,        \* the node the consumer asks: "repeat", "roundrobin", "batch"
    erLens,       \* erLens[d]: the records of one pass over upstream d
    erSize,       \* the size of the batch
    erPc,         \* "idle": no request is pending; "asked": one is
    erIn,         \* erIn[d]: repeat d has a pass open
    erPos,        \* erPos[d]: records taken in the open pass of repeat d
    erIdx,        \* the index the `for` of the mux is at
    erWin         \* records in the window of the batch

muxVars == <<muxKind, muxLens, muxFail, muxPc, muxIters, muxIdx, muxPos, muxOpen, muxTrace,
            muxStopped,
            muxOut>>
slVars == <<slN, slArgs, slStart, slStop, slStep, slPc, slCount, slPulled, slOpen, slOut>>

exVars == <<exBase, exN, exCache, exCfg, exResolved, exWho, exOpens, exPulled, exReplay>>

rpVars == <<rpN, rpTimes, rpPc, rpLimit, rpCycle, rpPos, rpOpen, rpOut>>
smVars == <<smKind, smN, smPc, smPos, smOut, smRuns, smFirstRun, smFirst>>
trVars == <<trKind, trSrc, trFn, trPc, trPos, trOpen, trCalls, trSub, trOut, trThrown, trExc>>
btVars == <<btN, btSize, btPc, btPos, btWin, btOpen, btOut>>
chVars == <<chM, chN, chStop, chFail, chStat, chTrace, chPos, chCount, chOut, chEnd>>
egVars == <<egBase, egN, egFirst, egShape, egTypes, egOut, egGot>>
dsVars == <<dsModule, dsFn, dsGiven, dsOpts, dsPc, dsNames, dsDone, dsFiles, dsListed, dsNodes,
           dsErr>>
lnVars == <<lnKinds, lnPc, lnStarted, lnOpened, lnAsked>>
mmVars == <<mmUp, mmAttr, mmPulled, mmRet, mmLast, mmAgain>>
skVars == <<skKind, skN, skCount, skFail, skPc, skIts, skOpens, skPos, skOut>>
erVars == <<erTop, erLens, erSize, erPc, erIn, erPos, erIdx, erWin>>
shVars == <<shSrc, shK, shSeed, shRng, shNode, shPc, shBuf, shSize, shPos, shItem, shDrain,
            shOut, shRuns, shRef>>

vars == <<muxVars, slVars, exVars, rpVars, smVars, shVars, trVars, btVars, chVars,
         egVars, dsVars, lnVars, mmVars, skVars, erVars>>

(***************************************************************************)
(* Bounds of the model.                                                    *)
(***************************************************************************)
NumUp == 3
MaxLen == 3
MaxArg == 4
MaxStart == 2
MaxStep == 2
MaxRec == 2
MaxOpens == 3
MaxTimes == 2
MaxCycles == 4
MaxRuns == 3
MaxBuf == 4
MaxSeed == 2
MaxTrLen == 2
MaxNames == 2
MaxFiles == 2
MaxSample == 1
MaxNodes == 3
MaxMmLen == 2
MaxPulls == 3
NumRep == 2
MaxPass == 2
MaxErSize == 3
MaxFailAt == 1
MaxStages == 2
MaxBatchLen == 10
MaxBatchSize == 4

\* Python's None and a given value, for an optional argument.
None == <<>>
Some(v) == <<v>>
Opt(S) == {None} \cup {Some(v) : v \in S}

\* Python's `x or d` for x an optional integer: d when x is None or 0.
PyOr(x, d) == IF x = None THEN d ELSE IF x[1] = 0 THEN d ELSE x[1]

Ups == 1..NumUp

\* list.remove taken for list.pop(): the last element goes.
RemoveLast(s, i) == [k \in 1..(Len(s) - 1) |-> s[k]]

\* A sequence without its element at index i (list.remove of that element).
RemoveAt(s, i) == [k \in 1..(Len(s) - 1) |-> IF k < i THEN s[k] ELSE s[k + 1]]

\* The index of the first occurrence of x in s (list.remove removes that one).
IndexOf(s, x) == CHOOSE i \in 1..Len(s) : s[i] = x /\ \A k \in 1..(i - 1) : s[k] # x

\* The variables a specification of one node kind leaves alone.
notMux == <<slVars, exVars, rpVars, smVars, shVars, trVars, btVars, chVars, egVars,
            dsVars, lnVars, mmVars, skVars, erVars>>
notSl == <<muxVars, exVars, rpVars, smVars, shVars, trVars, btVars, chVars, egVars,
           dsVars, lnVars, mmVars, skVars, erVars>>
notEx == <<muxVars, slVars, rpVars, smVars, shVars, trVars, btVars, chVars, egVars,
           dsVars, lnVars, mmVars, skVars, erVars>>
notRp == <<muxVars, slVars, exVars, smVars, shVars, trVars, btVars, chVars, egVars,
           dsVars, lnVars, mmVars, skVars, erVars>>
notSm == <<muxVars, slVars, exVars, rpVars, shVars, trVars, btVars, chVars, egVars,
           dsVars, lnVars, mmVars, skVars, erVars>>
notSh == <<muxVars, slVars, exVars, rpVars, smVars, trVars, btVars, chVars, egVars,
           dsVars, lnVars, mmVars, skVars, erVars>>
notTr == <<muxVars, slVars, exVars, rpVars, smVars, shVars, btVars, chVars, egVars,
           dsVars, lnVars, mmVars, skVars, erVars>>
notBt == <<muxVars, slVars, exVars, rpVars, smVars, shVars, trVars, chVars, egVars,
           dsVars, lnVars, mmVars, skVars, erVars>>
notCh == <<muxVars, slVars, exVars, rpVars, smVars, shVars, trVars, btVars, egVars,
           dsVars, lnVars, mmVars, skVars, erVars>>
notEg == <<muxVars, slVars, exVars, rpVars, smVars, shVars, trVars, btVars, chVars,
           dsVars, lnVars, mmVars, skVars, erVars>>
notDs == <<muxVars, slVars, exVars, rpVars, smVars, shVars, trVars, btVars, chVars,
           egVars, lnVars, mmVars, skVars, erVars>>
notLn == <<muxVars, slVars, exVars, rpVars, smVars, shVars, trVars, btVars, chVars,
           egVars, dsVars, mmVars, skVars, erVars>>
notMm == <<muxVars, slVars, exVars, rpVars, smVars, shVars, trVars, btVars, chVars,
           egVars, dsVars, lnVars, skVars, erVars>>
notSk == <<muxVars, slVars, exVars, rpVars, smVars, shVars, trVars, btVars, chVars,
           egVars, dsVars, lnVars, mmVars, erVars>>
notEr == <<muxVars, slVars, exVars, rpVars, smVars, shVars, trVars, btVars, chVars,
           egVars, dsVars, lnVars, mmVars, skVars>>

(***************************************************************************)
(* SlicedDataset                                                           *)
(***************************************************************************)
\* SlicedDataset.__init__: both branches (a slice object, or start/stop/step
\* given one by one) put `start or 0, stop or -1, step or 1` into the fields.
SlicedInit(start, stop, step) ==
    [start |-> PyOr(start, 0), stop |-> PyOr(stop, -1), step |-> PyOr(step, 1)]

\* Dataset.take(count): SlicedDataset(self, 0, count), step left at its default 1.
Take(count) == SlicedInit(Some(0), Some(count), Some(1))

\* Dataset.__getitem__ with a slice that is not [::]: SlicedDataset(self, item).
GetSlice(start, stop, step) == SlicedInit(start, stop, step)

SlArgSet ==
    {[how |-> "take", start |-> Some(0), stop |-> Some(n), step |-> Some(1)] :
        n \in 0..MaxArg}
    \cup ({[how |-> "slice", start |-> a, stop |-> b, step |-> c] :
              a \in Opt(0..MaxStart), b \in Opt(0..MaxArg), c \in Opt(1..MaxStep)}
           \ {[how |-> "slice", start |-> None, stop |-> None, step |-> None]})

SlFields(args) ==
    IF args.how = "take" THEN Take(args.stop[1])
    ELSE GetSlice(args.start, args.stop, args.step)

SlIdle ==
    /\ slN = 0
    /\ slArgs = [how |-> "none", start |-> None, stop |-> None, step |-> None]
    /\ slStart = 0
    /\ slStop = 0
    /\ slStep = 1
    /\ slPc = "idle"
    /\ slCount = 0
    /\ slPulled = 0
    /\ slOpen = 0
    /\ slOut = <<>>

SlInit ==
    /\ slN \in 0..MaxLen
    /\ slArgs \in SlArgSet
    /\ slStart = SlFields(slArgs).start
    /\ slStop = SlFields(slArgs).stop
    /\ slStep = SlFields(slArgs).step
    /\ slPc = "new"
    /\ slCount = 0
    /\ slPulled = 0
    /\ slOpen = 0
    /\ slOut = <<>>

\* count = 0; iterator = iter(self.upstream)
SlIter ==
    /\ slPc = "new"
    /\ slPc' = "loop"
    /\ slCount' = 0
    /\ slOpen' = slOpen + 1
    /\ UNCHANGED <<slN, slArgs, slStart, slStop, slStep, slPulled, slOut>>
    /\ UNCHANGED notSl

\* for item in iterator: the upstream has no record left; finally: close.
SlExhausted ==
    /\ slPc = "loop"
    /\ slPulled >= slN
    /\ slPc' = "done"
    /\ slOpen' = slOpen - 1
    /\ UNCHANGED <<slN, slArgs, slStart, slStop, slStep, slCount, slPulled, slOut>>
    /\ UNCHANGED notSl

\* A record is taken from the upstream and count == self.stop: break; close.
SlBreak ==
    /\ slPc = "loop"
    /\ slPulled < slN
    /\ slCount = slStop
    /\ slPulled' = slPulled + 1
    /\ slPc' = "done"
    /\ slOpen' = slOpen - 1
    /\ UNCHANGED <<slN, slArgs, slStart, slStop, slStep, slCount, slOut>>
    /\ UNCHANGED notSl

\* A record is taken; d = count - start; it is yielded when d >= 0 and
\* d % step == 0; count += 1.
SlTake ==
    /\ slPc = "loop"
    /\ slPulled < slN
    /\ slCount # slStop
    /\ slPulled' = slPulled + 1
    /\ LET d == slCount - slStart IN
          slOut' = IF d >= 0 /\ d % slStep = 0 THEN Append(slOut, slPulled) ELSE slOut
    /\ slCount' = slCount + 1
    /\ UNCHANGED <<slN, slArgs, slStart, slStop, slStep, slPc, slOpen>>
    /\ UNCHANGED notSl

SlNext == SlIter \/ SlExhausted \/ SlBreak \/ SlTake

(***************************************************************************)
(* Dataset.executor, TransformedDataset, CachedDataset                     *)
(***************************************************************************)
\* The positions SlicedDataset.__iter__ emits over an upstream of n records.
SlicedList(n, f) ==
    LET Emits(p) == /\ (f.stop < 0 \/ p < f.stop)
                    /\ p - f.start >= 0
                    /\ (p - f.start) % f.step = 0
    IN SelectSeq([k \in 1..n |-> k - 1], Emits)

\* The records SlicedDataset.__iter__ takes from an upstream of n records when
\* it is driven to its end: one more than `stop`, at which it breaks.
SlicedPulls(n, f) == IF f.stop >= 0 /\ f.stop < n THEN f.stop + 1 ELSE n

\* Dataset.__getitem__ with an integer: self.take(item).list()[-1].
GetItem(n, item) ==
    LET l == SlicedList(n, Take(item)) IN
    [ok |-> l # <<>>,
     item |-> IF l # <<>> THEN l[Len(l)] ELSE -1,
     pulls |-> SlicedPulls(n, Take(item))]

\* executor_config: the keyword arguments given to a stage.  `other` stands
\* for any key that executor() does not look at.
ConfigSet ==
    [executor : {"absent", "instance", "other"},
     background : {"absent", "true", "false"},
     num_threads : BOOLEAN,
     num_processes : BOOLEAN,
     other : BOOLEAN]

NoConfig ==
    [executor |-> "absent", background |-> "absent", num_threads |-> FALSE,
     num_processes |-> FALSE, other |-> FALSE]

\* len(executor_config)
ConfigLen(cfg) ==
    (IF cfg.executor # "absent" THEN 1 ELSE 0)
    + (IF cfg.background # "absent" THEN 1 ELSE 0)
    + (IF cfg.num_threads THEN 1 ELSE 0)
    + (IF cfg.num_processes THEN 1 ELSE 0)
    + (IF cfg.other THEN 1 ELSE 0)

\* FromConfig with the thread count looked at before the background flag.
FromConfigThreadsFirst(cfg) ==
    IF cfg.executor = "instance" THEN "Given"
    ELSE IF cfg.num_threads THEN "ThreadPool"
    ELSE IF cfg.background # "absent"
         THEN (IF cfg.background = "true" THEN "BackgroundThread" ELSE "CurrentThread")
    ELSE IF cfg.num_processes THEN "MultiProcessing"
    ELSE IF ConfigLen(cfg) > 0 THEN "ValueError"
    ELSE "upstream"

\* Dataset.executor up to its `try`: what the keyword arguments alone decide;
\* "upstream" when the first upstream is asked.
FromConfig(cfg) ==
    IF cfg.executor = "instance" THEN "Given"
    ELSE IF cfg.background # "absent"
         THEN (IF cfg.background = "true" THEN "BackgroundThread" ELSE "CurrentThread")
    ELSE IF cfg.num_threads THEN "ThreadPool"
    ELSE IF cfg.num_processes THEN "MultiProcessing"
    ELSE IF ConfigLen(cfg) > 0 THEN "ValueError"
    ELSE "upstream"

\* node.executor(**cfg) for node 0 (the base), 1 (up) or 2 (top): what it
\* returns or raises (ex), and the iterations (opens) and records (pulls) it
\* takes from the in-memory source on the way.
\*   - Mux.executor returns CurrentThreadExecutor whatever it is given;
\*   - a stage without hints calls self._upstream()[0].executor(), with no
\*     argument;
\*   - InMemoryDataset._upstream() is [], so [0] raises IndexError, which is
\*     caught: CurrentThreadExecutor;
\*   - CachedDataset._upstream() is the upstream dataset itself, so [0] is
\*     Dataset.__getitem__(0) of that dataset: it iterates the upstream and
\*     gives a record, which has no executor() (AttributeError), or raises
\*     IndexError when there is no record.
RECURSIVE executor(_, _, _, _)
executor(base, n, node, cfg) ==
    IF node = 0 /\ base = "mux" THEN [ex |-> "CurrentThread", opens |-> 0, pulls |-> 0]
    ELSE IF FromConfig(cfg) # "upstream" THEN [ex |-> FromConfig(cfg), opens |-> 0, pulls |-> 0]
    ELSE IF node > 0 THEN executor(base, n, node - 1, NoConfig)
    ELSE IF base = "source" THEN [ex |-> "CurrentThread", opens |-> 0, pulls |-> 0]
    ELSE LET r == GetItem(n, 0) IN
         [ex |-> IF r.ok THEN "AttributeError" ELSE "CurrentThread",
          opens |-> 1, pulls |-> r.pulls]

Stages == 1..2

ExIdle ==
    /\ exBase = "none"
    /\ exN = 0
    /\ exCache = None
    /\ exCfg = [k \in Stages |-> None]
    /\ exResolved = "none"
    /\ exWho = 0
    /\ exOpens = 0
    /\ exPulled = 0
    /\ exReplay = None

ExInit ==
    /\ exBase \in {"source", "mux", "cache"}
    /\ exN \in 0..MaxLen
    /\ exCache = None
    /\ exCfg = [k \in Stages |-> None]
    /\ exResolved = "none"
    /\ exWho = 0
    /\ exOpens = 0
    /\ exPulled = 0
    /\ exReplay = None

\* The base node is there: a source and a Mux as soon as the graph is, a
\* Cache once CachedDataset.__init__ has run.
ExBaseBuilt == exBase # "cache" \/ exCache # None

\* CachedDataset.__init__: self.cache = upstream.list(): one full iteration of
\* the upstream.
ExCacheInit ==
    /\ exBase = "cache"
    /\ exCache = None
    /\ exCache' = Some([k \in 1..exN |-> k - 1])
    /\ exOpens' = exOpens + 1
    /\ exPulled' = exPulled + exN
    /\ UNCHANGED <<exBase, exN, exCfg, exResolved, exWho, exReplay>>
    /\ UNCHANGED notEx

\* CachedDataset.__iter__: iter(self.cache).
ExCacheIter ==
    /\ exBase = "cache"
    /\ exCache # None
    /\ exReplay' = exCache
    /\ UNCHANGED <<exBase, exN, exCache, exCfg, exResolved, exWho, exOpens, exPulled>>
    /\ UNCHANGED notEx

\* TransformedDataset.__init__ of stage k with executor_config cfg: three
\* assignments, whatever cfg holds.
ExConstruct(k, cfg) ==
    /\ ExBaseBuilt
    /\ exCfg[k] = None
    /\ k > 1 => exCfg[k - 1] # None
    /\ exCfg' = [exCfg EXCEPT ![k] = Some(cfg)]
    /\ UNCHANGED <<exBase, exN, exCache, exResolved, exWho, exOpens, exPulled, exReplay>>
    /\ UNCHANGED notEx

\* TransformedDataset.__iter__ of stage k, up to the executor it runs on:
\* self.executor(**self.executor_config).
ExIterate(k) ==
    /\ exCfg[k] # None
    /\ exOpens < MaxOpens
    /\ LET r == executor(exBase, exN, k, exCfg[k][1]) IN
          /\ exResolved' = r.ex
          /\ exOpens' = exOpens + r.opens
          /\ exPulled' = exPulled + r.pulls
    /\ exWho' = k
    /\ UNCHANGED <<exBase, exN, exCache, exCfg, exReplay>>
    /\ UNCHANGED notEx

ExNext ==
    \/ ExCacheInit
    \/ ExCacheIter
    \/ \E k \in Stages, cfg \in ConfigSet : ExConstruct(k, cfg)
    \/ \E k \in Stages : ExIterate(k)

(***************************************************************************)
(* RepeatedDataset                                                         *)
(***************************************************************************)
\* self.times >= 0 and range(self.times) or iter(int, 1): range(times) when
\* times >= 0 and range(times) is truthy (not empty), else the endless iterator.
Cycles(times) == IF times >= 0 /\ times # 0 THEN Some(times) ELSE None

RpIdle ==
    /\ rpN = 0
    /\ rpTimes = 0
    /\ rpPc = "idle"
    /\ rpLimit = None
    /\ rpCycle = 0
    /\ rpPos = 0
    /\ rpOpen = 0
    /\ rpOut = <<>>

\* Dataset.repeat(times=-1): RepeatedDataset(self, times).
RpInit ==
    /\ rpN \in 0..MaxLen
    /\ rpTimes \in (-1)..MaxTimes
    /\ rpPc = "new"
    /\ rpLimit = None
    /\ rpCycle = 0
    /\ rpPos = 0
    /\ rpOpen = 0
    /\ rpOut = <<>>

\* The iterable of the outer `for` is evaluated.
RpIter ==
    /\ rpPc = "new"
    /\ rpLimit' = Cycles(rpTimes)
    /\ rpPc' = "outer"
    /\ UNCHANGED <<rpN, rpTimes, rpCycle, rpPos, rpOpen, rpOut>>
    /\ UNCHANGED notRp

\* The outer `for` has a next pass: iterator = iter(self.upstream).
RpOpenPass ==
    /\ rpPc = "outer"
    /\ IF rpLimit = None THEN TRUE ELSE rpCycle < rpLimit[1]
    /\ rpCycle < MaxCycles
    /\ rpCycle' = rpCycle + 1
    /\ rpPos' = 0
    /\ rpOpen' = rpOpen + 1
    /\ rpPc' = "inner"
    /\ UNCHANGED <<rpN, rpTimes, rpLimit, rpOut>>
    /\ UNCHANGED notRp

\* The outer `for` is exhausted.
RpDone ==
    /\ rpPc = "outer"
    /\ rpLimit # None
    /\ rpCycle >= rpLimit[1]
    /\ rpPc' = "done"
    /\ UNCHANGED <<rpN, rpTimes, rpLimit, rpCycle, rpPos, rpOpen, rpOut>>
    /\ UNCHANGED notRp

\* for item in iterator: yield item
RpYield ==
    /\ rpPc = "inner"
    /\ rpPos < rpN
    /\ rpOut' = Append(rpOut, rpPos)
    /\ rpPos' = rpPos + 1
    /\ UNCHANGED <<rpN, rpTimes, rpPc, rpLimit, rpCycle, rpOpen>>
    /\ UNCHANGED notRp

\* The upstream iterator is exhausted; finally: close_iterator(iterator).
RpClosePass ==
    /\ rpPc = "inner"
    /\ rpPos >= rpN
    /\ rpOpen' = rpOpen - 1
    /\ rpPc' = "outer"
    /\ UNCHANGED <<rpN, rpTimes, rpLimit, rpCycle, rpPos, rpOut>>
    /\ UNCHANGED notRp

RpNext == RpIter \/ RpOpenPass \/ RpDone \/ RpYield \/ RpClosePass

(***************************************************************************)
(* InMemoryDataset                                                         *)
(***************************************************************************)
\* Whether iter(self._items) gives a new iterator, at the first record.  For
\* one sequence self._items is that sequence, and for keyword columns
\* __iter__ builds zip(*values) itself; for several sequences self._items is
\* the zip object made once in __init__, which is its own iterator.
FreshIterator(kind) == kind # "tuple"

SmIdle ==
    /\ smKind = "none"
    /\ smN = 0
    /\ smPc = "idle"
    /\ smPos = 0
    /\ smOut = <<>>
    /\ smRuns = 0
    /\ smFirstRun = None
    /\ smFirst = None

SmInit ==
    /\ smKind \in {"single", "tuple", "dict"}
    /\ smN \in 0..MaxLen
    /\ smPc = "rest"
    /\ smPos = 0
    /\ smOut = <<>>
    /\ smRuns = 0
    /\ smFirstRun = None
    /\ smFirst = None

\* A consumer starts an iteration: iterator = iter(items).
SmIter ==
    /\ smPc \in {"rest", "done"}
    /\ smRuns < MaxRuns
    /\ smRuns' = smRuns + 1
    /\ smPos' = IF FreshIterator(smKind) THEN 0 ELSE smPos
    /\ smOut' = <<>>
    /\ smPc' = "iter"
    /\ UNCHANGED <<smKind, smN, smFirstRun, smFirst>>
    /\ UNCHANGED notSm

\* for item in iterator: yield item
SmYield ==
    /\ smPc = "iter"
    /\ smPos < smN
    /\ smOut' = Append(smOut, smPos)
    /\ smPos' = smPos + 1
    /\ UNCHANGED <<smKind, smN, smPc, smRuns, smFirstRun, smFirst>>
    /\ UNCHANGED notSm

\* The iterator is exhausted: the iteration has run to its end.
SmEnd ==
    /\ smPc = "iter"
    /\ smPos >= smN
    /\ smPc' = "done"
    /\ smFirstRun' = IF smFirstRun = None THEN Some(smOut) ELSE smFirstRun
    /\ UNCHANGED <<smKind, smN, smPos, smOut, smRuns, smFirst>>
    /\ UNCHANGED notSm

\* The consumer abandons the iteration before its end.
SmAbandon ==
    /\ smPc = "iter"
    /\ smPos < smN
    /\ smPc' = "rest"
    /\ smOut' = <<>>
    /\ UNCHANGED <<smKind, smN, smPos, smRuns, smFirstRun, smFirst>>
    /\ UNCHANGED notSm

\* Dataset.first() (shape() and types() call it): while self._first is None,
\* self.take(1).list()[0], an iteration of the source through
\* SlicedDataset(self, 0, 1), which takes a second record before it breaks.
SmFirstCall ==
    /\ smPc \in {"rest", "done"}
    /\ smFirst = None
    /\ LET from == IF FreshIterator(smKind) THEN 0 ELSE smPos
            left == smN - from
            got == SlicedList(left, Take(1))
        IN /\ smFirst' = IF got = <<>> THEN None ELSE Some(from + got[1])
           /\ smPos' = from + SlicedPulls(left, Take(1))
    /\ smPc' = "rest"
    /\ smOut' = <<>>
    /\ UNCHANGED <<smKind, smN, smRuns, smFirstRun>>
    /\ UNCHANGED notSm

SmNext == SmIter \/ SmYield \/ SmEnd \/ SmAbandon \/ SmFirstCall

(***************************************************************************)
(* ShuffledDataset                                                         *)
(***************************************************************************)
\* The record None; the other records are 1, 2, ...
NoneRecord == 0
Records == {NoneRecord} \cup 1..MaxRec

RECURSIVE SeqsUpTo(_, _)
SeqsUpTo(S, n) ==
    IF n = 0 THEN {<<>>}
    ELSE SeqsUpTo(S, n - 1) \cup {Append(q, x) : q \in SeqsUpTo(S, n - 1), x \in S}

\* random.Random: a deterministic generator, here a linear congruential one.
\* All that is used of it is that the state after a draw, and the number
\* drawn, are functions of the state before.
RandomSeeded(seed) == seed % 31
RandomAdvance(s) == (7 * s + 3) % 31
\* Random.randrange(n) for n > 0 (it raises ValueError for n <= 0).
RandRange(s, n) == RandomAdvance(s) % n

\* Random.shuffle(x): for i in reversed(range(1, len(x))): j = randbelow(i + 1);
\* x[i], x[j] = x[j], x[i].  The index i below is Python's i.
RECURSIVE ShuffleFrom(_, _, _)
ShuffleFrom(x, i, s) ==
    IF i < 1 THEN [buf |-> x, rng |-> s]
    ELSE LET j == RandRange(s, i + 1)
             y == [x EXCEPT ![i + 1] = x[j + 1], ![j + 1] = x[i + 1]]
         IN ShuffleFrom(y, i - 1, RandomAdvance(s))

RandomShuffle(x, s) == ShuffleFrom(x, Len(x) - 1, s)

Min(a, b) == IF a < b THEN a ELSE b
Max(a, b) == IF a > b THEN a ELSE b

Nodes == 1..2

\* Dataset.sample(count, buffer_size=-1, seed=None) is
\* self.shuffle(buffer_size, seed).take(count).
SampleBufferSize == -1

\* The records take(count) emits of the records `out` of its upstream.
Sample(out, count) ==
    LET l == SlicedList(Len(out), Take(count)) IN [k \in 1..Len(l) |-> out[l[k] + 1]]

ShIdle ==
    /\ shSrc = <<>>
    /\ shK = None
    /\ shSeed = 0
    /\ shRng = [v \in Nodes |-> 0]
    /\ shNode = 0
    /\ shPc = "idle"
    /\ shBuf = <<>>
    /\ shSize = 0
    /\ shPos = 0
    /\ shItem = None
    /\ shDrain = 0
    /\ shOut = <<>>
    /\ shRuns = 0
    /\ shRef = None

\* ShuffledDataset.__init__ of both nodes: self.random = random.Random(seed).
ShInit ==
    /\ shSrc \in SeqsUpTo(Records, MaxLen)
    /\ shK \in Opt({SampleBufferSize} \cup 0..MaxBuf)
    /\ shSeed \in 0..MaxSeed
    /\ shRng = [v \in Nodes |-> RandomSeeded(shSeed)]
    /\ shNode = 0
    /\ shPc = "rest"
    /\ shBuf = <<>>
    /\ shSize = 0
    /\ shPos = 0
    /\ shItem = None
    /\ shDrain = 0
    /\ shOut = <<>>
    /\ shRuns = 0
    /\ shRef = None

\* A consumer starts an iteration of node v: iterator = iter(self.upstream).
ShIter(v) ==
    /\ shPc \in {"rest", "done", "error"}
    /\ shRuns < MaxRuns
    /\ shRuns' = shRuns + 1
    /\ shNode' = v
    /\ shPc' = "fill"
    /\ shBuf' = <<>>
    /\ shSize' = 0
    /\ shPos' = 0
    /\ shItem' = None
    /\ shDrain' = 0
    /\ shOut' = <<>>
    /\ UNCHANGED <<shSrc, shK, shSeed, shRng, shRef>>
    /\ UNCHANGED notSh

\* Fill the buffer, with zip(range(buffer_size), iterator) or, without a
\* buffer size, with list(iterator); then self.random.shuffle(buffer).
ShFill ==
    /\ shPc = "fill"
    /\ LET take == IF shK = None THEN Len(shSrc) ELSE Min(Max(shK[1], 0), Len(shSrc))
            r == RandomShuffle(SubSeq(shSrc, 1, take), shRng[shNode])
        IN /\ shBuf' = r.buf
           /\ shRng' = [shRng EXCEPT ![shNode] = r.rng]
           /\ shPos' = take
           /\ shSize' = IF shK = None THEN take ELSE shK[1]
    /\ shPc' = "loop"
    /\ UNCHANGED <<shSrc, shK, shSeed, shNode, shItem, shDrain, shOut, shRuns, shRef>>
    /\ UNCHANGED notSh

\* for item in iterator: the upstream has a record, which becomes `item`.
ShPull ==
    /\ shPc = "loop"
    /\ shPos < Len(shSrc)
    /\ shItem' = Some(shSrc[shPos + 1])
    /\ shPos' = shPos + 1
    /\ shPc' = "swap"
    /\ UNCHANGED <<shSrc, shK, shSeed, shRng, shNode, shBuf, shSize, shDrain, shOut, shRuns,
                   shRef>>
    /\ UNCHANGED notSh

\* i = self.random.randrange(buffer_size); yield buffer[i]; buffer[i] = item
ShSwap ==
    /\ shPc = "swap"
    /\ shSize > 0
    /\ LET i == RandRange(shRng[shNode], shSize) IN
          /\ shOut' = Append(shOut, shBuf[i + 1])
          /\ shBuf' = [shBuf EXCEPT ![i + 1] = shItem[1]]
    /\ shRng' = [shRng EXCEPT ![shNode] = RandomAdvance(@)]
    /\ shItem' = None
    /\ shPc' = "loop"
    /\ UNCHANGED <<shSrc, shK, shSeed, shNode, shSize, shPos, shDrain, shRuns, shRef>>
    /\ UNCHANGED notSh

\* ... and randrange(buffer_size) raises ValueError for buffer_size <= 0;
\* finally: close_iterator(iterator).
ShRangeError ==
    /\ shPc = "swap"
    /\ shSize <= 0
    /\ shPc' = "error"
    /\ UNCHANGED <<shSrc, shK, shSeed, shRng, shNode, shBuf, shSize, shPos, shItem, shDrain,
                   shOut, shRuns, shRef>>
    /\ UNCHANGED notSh

\* The upstream is exhausted: the draining `for item in buffer` starts.
ShLoopEnd ==
    /\ shPc = "loop"
    /\ shPos >= Len(shSrc)
    /\ shPc' = "drain"
    /\ shDrain' = 0
    /\ UNCHANGED <<shSrc, shK, shSeed, shRng, shNode, shBuf, shSize, shPos, shItem, shOut,
                   shRuns, shRef>>
    /\ UNCHANGED notSh

\* for item in buffer: if item is not None: yield item
ShDrainItem ==
    /\ shPc = "drain"
    /\ shDrain < Len(shBuf)
    /\ shOut' = IF shBuf[shDrain + 1] # NoneRecord
                   THEN Append(shOut, shBuf[shDrain + 1])
                   ELSE shOut
    /\ shDrain' = shDrain + 1
    /\ UNCHANGED <<shSrc, shK, shSeed, shRng, shNode, shPc, shBuf, shSize, shPos, shItem,
                   shRuns, shRef>>
    /\ UNCHANGED notSh

\* The buffer is drained: finally: close_iterator(iterator); the iteration
\* has run to its end.
ShEnd ==
    /\ shPc = "drain"
    /\ shDrain >= Len(shBuf)
    /\ shPc' = "done"
    /\ shRef' = IF shRef = None THEN Some(shOut) ELSE shRef
    /\ UNCHANGED <<shSrc, shK, shSeed, shRng, shNode, shBuf, shSize, shPos, shItem, shDrain,
                   shOut, shRuns>>
    /\ UNCHANGED notSh

ShNext ==
    \/ \E v \in Nodes : ShIter(v)
    \/ ShFill
    \/ ShPull
    \/ ShSwap
    \/ ShRangeError
    \/ ShLoopEnd
    \/ ShDrainItem
    \/ ShEnd

(***************************************************************************)
(* Mux: RoundRobinMux.__iter__ and SequentialMux.__iter__                  *)
(***************************************************************************)
MuxIdle ==
    /\ muxKind = "none"
    /\ muxLens = [d \in Ups |-> 0]
    /\ muxFail = None
    /\ muxPc = "idle"
    /\ muxIters = <<>>
    /\ muxIdx = 0
    /\ muxPos = [d \in Ups |-> 0]
    /\ muxOpen = {}
    /\ muxTrace = FALSE
    /\ muxOut = <<>>
    /\ muxStopped = {}

\* Mux.__init__ stores the datasets.
MuxInit ==
    /\ muxKind \in {"roundrobin", "sequential"}
    /\ muxLens \in [Ups -> 0..MaxLen]
    /\ muxFail \in {None} \cup {<<d, p>> : d \in Ups, p \in 0..MaxFailAt}
    /\ muxPc = "new"
    /\ muxIters = <<>>
    /\ muxIdx = 0
    /\ muxPos = [d \in Ups |-> 0]
    /\ muxOpen = {}
    /\ muxTrace = FALSE
    /\ muxOut = <<>>
    /\ muxStopped = {}

\* next(iterator) of upstream d raises (an exception other than
\* StopIteration) instead of giving its next record.
FailsNow(d) == muxFail = <<d, muxPos[d]>>

\* next(iterator) of upstream d gives a record.
GivesNow(d) == muxPos[d] < muxLens[d] /\ ~FailsNow(d)

\* The upstream iterator the mux asks next.
Asked ==
    IF muxKind = "roundrobin"
       THEN (IF muxIdx < Len(muxIters) THEN {muxIters[muxIdx + 1]} ELSE {})
       ELSE (IF muxIdx < NumUp THEN {muxIdx + 1} ELSE {})

\* RoundRobinMux: iterators = list(map(iter, self.datasets)), then the first
\* `while` test.
MuxIter ==
    /\ muxKind = "roundrobin"
    /\ muxPc = "new"
    /\ muxIters' = [d \in Ups |-> d]
    /\ muxIdx' = 0
    /\ muxPc' = "while"
    /\ UNCHANGED <<muxKind, muxLens, muxFail, muxPos, muxOpen, muxTrace, muxOut>>
    /\ UNCHANGED muxStopped
    /\ UNCHANGED notMux

\* while len(iterators) > 0: a new `for iterator in iterators` starts at index 0.
MuxWhile ==
    /\ muxPc = "while"
    /\ IF Len(muxIters) > 0
          THEN muxPc' = "for" /\ muxIdx' = 0
          ELSE muxPc' = "done" /\ muxIdx' = muxIdx
    /\ UNCHANGED <<muxKind, muxLens, muxFail, muxIters, muxPos, muxOpen, muxTrace, muxOut>>
    /\ UNCHANGED muxStopped
    /\ UNCHANGED notMux

\* The list iterator of the `for` has no element left at its index.
MuxForEnd ==
    /\ muxPc \in {"for", "yielded"}
    /\ muxKind = "roundrobin"
    /\ muxIdx >= Len(muxIters)
    /\ muxPc' = "while"
    /\ UNCHANGED <<muxKind, muxLens, muxFail, muxIters, muxIdx, muxPos, muxOpen, muxTrace,
                   muxOut>>
    /\ UNCHANGED muxStopped
    /\ UNCHANGED notMux

\* yield next(iterator): the upstream has a record; the generator is at its
\* yield ("yielded") until the consumer asks again.
MuxYield ==
    /\ muxPc \in {"for", "yielded"}
    /\ muxKind = "roundrobin"
    /\ muxIdx < Len(muxIters)
    /\ LET d == muxIters[muxIdx + 1] IN
          /\ GivesNow(d)
          /\ muxOut' = Append(muxOut, <<d, muxPos[d]>>)
          /\ muxPos' = [muxPos EXCEPT ![d] = @ + 1]
          /\ muxOpen' = muxOpen \cup {d}
    /\ muxIdx' = muxIdx + 1
    /\ muxPc' = "yielded"
    /\ UNCHANGED <<muxKind, muxLens, muxFail, muxIters, muxTrace>>
    /\ UNCHANGED muxStopped
    /\ UNCHANGED notMux

\* except StopIteration: iterators.remove(iterator).  The list shrinks under
\* the running `for`, whose index still moves on by one.
MuxExhausted ==
    /\ muxPc \in {"for", "yielded"}
    /\ muxKind = "roundrobin"
    /\ muxIdx < Len(muxIters)
    /\ LET d == muxIters[muxIdx + 1] IN
          /\ muxPos[d] >= muxLens[d]
          /\ ~FailsNow(d)
          /\ muxIters' = RemoveAt(muxIters, IndexOf(muxIters, d))
          /\ muxOpen' = muxOpen \ {d}
    /\ muxIdx' = muxIdx + 1
    /\ muxPc' = "for"
    /\ UNCHANGED <<muxKind, muxLens, muxFail, muxPos, muxTrace, muxOut>>
    /\ muxStopped' = muxStopped \cup Asked
    /\ UNCHANGED notMux

\* SequentialMux: `for dataset in self.datasets` starts; muxIdx counts the
\* datasets done with.
SeqIter ==
    /\ muxKind = "sequential"
    /\ muxPc = "new"
    /\ muxIdx' = 0
    /\ muxPc' = "for"
    /\ UNCHANGED <<muxKind, muxLens, muxFail, muxIters, muxPos, muxOpen, muxTrace, muxOut>>
    /\ UNCHANGED muxStopped
    /\ UNCHANGED notMux

\* for item in dataset: yield item
SeqYield ==
    /\ muxPc \in {"for", "yielded"}
    /\ muxKind = "sequential"
    /\ muxIdx < NumUp
    /\ LET d == muxIdx + 1 IN
          /\ GivesNow(d)
          /\ muxOut' = Append(muxOut, <<d, muxPos[d]>>)
          /\ muxPos' = [muxPos EXCEPT ![d] = @ + 1]
          /\ muxOpen' = muxOpen \cup {d}
    /\ muxPc' = "yielded"
    /\ UNCHANGED <<muxKind, muxLens, muxFail, muxIters, muxIdx, muxTrace>>
    /\ UNCHANGED muxStopped
    /\ UNCHANGED notMux

\* The inner `for` ends with its dataset; the outer one moves on.
SeqExhausted ==
    /\ muxPc \in {"for", "yielded"}
    /\ muxKind = "sequential"
    /\ muxIdx < NumUp
    /\ LET d == muxIdx + 1 IN
          /\ muxPos[d] >= muxLens[d]
          /\ ~FailsNow(d)
          /\ muxOpen' = muxOpen \ {d}
    /\ muxIdx' = muxIdx + 1
    /\ muxPc' = "for"
    /\ UNCHANGED <<muxKind, muxLens, muxFail, muxIters, muxPos, muxTrace, muxOut>>
    /\ muxStopped' = muxStopped \cup Asked
    /\ UNCHANGED notMux

\* No dataset is left.
SeqEnd ==
    /\ muxPc \in {"for", "yielded"}
    /\ muxKind = "sequential"
    /\ muxIdx >= NumUp
    /\ muxPc' = "done"
    /\ UNCHANGED <<muxKind, muxLens, muxFail, muxIters, muxIdx, muxPos, muxOpen, muxTrace,
                   muxOut>>
    /\ UNCHANGED muxStopped
    /\ UNCHANGED notMux

\* The upstream iterators still open once an exception has left the mux: no
\* `finally` closes any, and the frame of the mux, which the traceback of
\* the exception refers to, keeps them alive.  The one that raised has ended.
OpenAfterRaise(open, d) == open \ {d}

\* next(iterator) raises: neither __iter__ catches anything but the
\* StopIteration of RoundRobinMux, so the exception reaches the consumer.
MuxRaise ==
    /\ muxPc \in {"for", "yielded"}
    /\ \E d \in Asked :
          /\ FailsNow(d)
          /\ muxOpen' = OpenAfterRaise(muxOpen, d)
    /\ muxTrace' = TRUE
    /\ muxPc' = "raised"
    /\ UNCHANGED <<muxKind, muxLens, muxFail, muxIters, muxIdx, muxPos, muxOut>>
    /\ UNCHANGED muxStopped
    /\ UNCHANGED notMux

\* The consumer abandons the iteration at a yield: it closes (or lets go of)
\* the mux's generator, whose frame goes, and with it the last references to
\* the upstream iterators, which are finalized (reference counting).
MuxAbandon ==
    /\ muxPc = "yielded"
    /\ muxOpen' = {}
    /\ muxPc' = "abandoned"
    /\ UNCHANGED <<muxKind, muxLens, muxFail, muxIters, muxIdx, muxPos, muxTrace, muxOut>>
    /\ UNCHANGED muxStopped
    /\ UNCHANGED notMux

\* The consumer lets go of the exception it caught, and of its traceback.
MuxForget ==
    /\ muxPc = "raised"
    /\ muxTrace
    /\ muxTrace' = FALSE
    /\ muxOpen' = {}
    /\ UNCHANGED <<muxKind, muxLens, muxFail, muxPc, muxIters, muxIdx, muxPos, muxOut>>
    /\ UNCHANGED muxStopped
    /\ UNCHANGED notMux

MuxNext ==
    \/ MuxIter
    \/ MuxWhile
    \/ MuxForEnd
    \/ MuxYield
    \/ MuxExhausted
    \/ SeqIter
    \/ SeqYield
    \/ SeqExhausted
    \/ SeqEnd
    \/ MuxRaise
    \/ MuxAbandon
    \/ MuxForget

(***************************************************************************)
(* TransformedDataset: one stage (map, filter, starmap or flatmap) over an *)
(* upstream of records, run by the CurrentThreadExecutor, which iterates   *)
(* TransformerGuard(transformer)(upstream) in the consumer's thread.       *)
(***************************************************************************)
\* An upstream record is a key-value map (dict) or a tuple.
TrRecords == {"dict", "tuple"} \X (1..MaxRec)

IsDict(x) == x[1] = "dict"

\* What a call of the caller-supplied function does: it returns a value or
\* raises.  A value is falsy (0, None, an empty sequence) or truthy; a
\* flatmapper returns a sequence of values.
Ret(v) == [raises |-> FALSE, val |-> v, exc |-> "none"]
Raise(e) == [raises |-> TRUE, val |-> "none", exc |-> e]

TrValues == {"falsy", "truthy"}
TrExceptions == {"ValueError", "StopIteration"}

Truthy(v) == v = "truthy"

TrReturns(kind) ==
    IF kind = "flatmap"
       THEN {Ret(q) : q \in {<<>>, <<"truthy">>, <<"falsy", "truthy">>}}
       ELSE {Ret(v) : v \in TrValues}

TrResults(kind) == TrReturns(kind) \cup {Raise(e) : e \in TrExceptions}

\* The calls a stage makes of the function: mapper(x), predicate(x) and
\* flatmapper(x) are "call"; starmapper(**x) is "kw"; starmapper(*x) is "pos".
FirstMode(kind, x) ==
    IF kind = "starmap" THEN (IF IsDict(x) THEN "kw" ELSE "pos") ELSE "call"

\* An exception leaving the body of a generator: a StopIteration becomes a
\* RuntimeError (PEP 479), any other exception passes as it is.
GeneratorRaises(e) == IF e = "StopIteration" THEN "RuntimeError" ELSE e

\* What the generator expression of a stage yields for the record x once
\* the first call has returned v; again is TRUE when the expression goes on
\* to its second call, starmapper(*x).
\* map: (mapper(x) for x in items)
MapYieldsTruthyOnly(x, v) ==
    [items |-> IF Truthy(v) THEN <<v>> ELSE <<>>, again |-> FALSE]

MapYields(x, v) == [items |-> <<v>>, again |-> FALSE]

\* filter: (x for x in items if predicate(x))
FilterYieldsAll(x, v) == [items |-> <<x>>, again |-> FALSE]

FilterYields(x, v) == [items |-> IF Truthy(v) THEN <<x>> ELSE <<>>, again |-> FALSE]

\* starmap: (isinstance(x, dict) and starmapper(**x) or starmapper(*x) for x in items)
StarMapYields(x, v) ==
    IF IsDict(x) /\ ~Truthy(v)
       THEN [items |-> <<>>, again |-> TRUE]
       ELSE [items |-> <<v>>, again |-> FALSE]

\* flatmap: (y for x in items for y in flatmapper(x))
FlatMapYields(x, v) == [items |-> v, again |-> FALSE]

Yields(kind, x, v) ==
    CASE kind = "map" -> MapYields(x, v)
      [] kind = "filter" -> FilterYields(x, v)
      [] kind = "starmap" -> StarMapYields(x, v)
      [] kind = "flatmap" -> FlatMapYields(x, v)

TrIdle ==
    /\ trKind = "none"
    /\ trSrc = <<>>
    /\ trFn = <<>>
    /\ trPc = "idle"
    /\ trPos = 0
    /\ trOpen = FALSE
    /\ trCalls = <<>>
    /\ trSub = <<>>
    /\ trOut = <<>>
    /\ trThrown = None
    /\ trExc = None

\* TransformedDataset.__init__ stores its arguments; nothing is called.
TrInit ==
    /\ trKind \in {"map", "filter", "starmap", "flatmap"}
    /\ trSrc \in SeqsUpTo(TrRecords, MaxTrLen)
    /\ trFn = <<>>
    /\ trPc = "new"
    /\ trPos = 0
    /\ trOpen = FALSE
    /\ trCalls = <<>>
    /\ trSub = <<>>
    /\ trOut = <<>>
    /\ trThrown = None
    /\ trExc = None

\* The consumer starts the iteration: the guard does iterator = iter(upstream)
\* and enters `for item in self.transformer(iterator)`.
TrIter ==
    /\ trPc = "new"
    /\ trOpen' = TRUE
    /\ trPc' = "pull"
    /\ UNCHANGED <<trKind, trSrc, trFn, trPos, trCalls, trSub, trOut, trThrown, trExc>>
    /\ UNCHANGED notTr

\* `for x in items`: the upstream has a record.
TrPull ==
    /\ trPc = "pull"
    /\ trPos < Len(trSrc)
    /\ trPos' = trPos + 1
    /\ trPc' = "call"
    /\ UNCHANGED <<trKind, trSrc, trFn, trOpen, trCalls, trSub, trOut, trThrown, trExc>>
    /\ UNCHANGED notTr

\* `for x in items`: the upstream is exhausted; the generator expression and
\* the guard's `for` end; finally: close_iterator(iterator).
TrExhausted ==
    /\ trPc = "pull"
    /\ trPos >= Len(trSrc)
    /\ trOpen' = FALSE
    /\ trPc' = "done"
    /\ UNCHANGED <<trKind, trSrc, trFn, trPos, trCalls, trSub, trOut, trThrown, trExc>>
    /\ UNCHANGED notTr

\* The function is called in the given mode on the record pulled last and
\* does r (the function is pure: what it did on a call before, it does again).
\* A value is yielded, dropped or leads to the second call; an exception
\* leaves the generator expression, the guard's finally closes the upstream
\* iterator and the exception reaches the consumer.
TrApply(mode, r) ==
    LET x == trSrc[trPos]
        call == <<mode, x>>
        second == mode = "pos" /\ IsDict(x)
        y == IF second THEN [items |-> <<r.val>>, again |-> FALSE]
                       ELSE Yields(trKind, x, r.val)
    IN /\ IF call \in DOMAIN trFn
             THEN r = trFn[call] /\ trFn' = trFn
             ELSE trFn' = [c \in (DOMAIN trFn) \cup {call} |->
                              IF c = call THEN r ELSE trFn[c]]
       /\ trCalls' = Append(trCalls, call)
       /\ IF r.raises
             THEN /\ trThrown' = Some(r.exc)
                  /\ trExc' = Some(GeneratorRaises(r.exc))
                  /\ trOpen' = FALSE
                  /\ trPc' = "raised"
                  /\ UNCHANGED <<trSub, trOut>>
             ELSE /\ trSub' = y.items
                  /\ trPc' = IF y.again THEN "again" ELSE "yield"
                  /\ UNCHANGED <<trOut, trOpen, trThrown, trExc>>
       /\ UNCHANGED <<trKind, trSrc, trPos>>
       /\ UNCHANGED notTr

\* The first call for a record: mapper(x), predicate(x), flatmapper(x),
\* starmapper(**x) for a dict and starmapper(*x) for any other record.
TrCall(r) ==
    /\ trPc = "call"
    /\ r \in TrResults(trKind)
    /\ TrApply(FirstMode(trKind, trSrc[trPos]), r)

\* `... or starmapper(*x)` after a falsy starmapper(**x).
TrCallAgain(r) ==
    /\ trPc = "again"
    /\ r \in TrResults(trKind)
    /\ TrApply("pos", r)

\* `yield item` of the guard, for each item the generator expression gives
\* for the record.
TrYield ==
    /\ trPc = "yield"
    /\ trSub # <<>>
    /\ trOut' = Append(trOut, Head(trSub))
    /\ trSub' = Tail(trSub)
    /\ UNCHANGED <<trKind, trSrc, trFn, trPc, trPos, trOpen, trCalls, trThrown, trExc>>
    /\ UNCHANGED notTr

\* Nothing (more) to yield for the record: back to `for x in items`.
TrYielded ==
    /\ trPc = "yield"
    /\ trSub = <<>>
    /\ trPc' = "pull"
    /\ UNCHANGED <<trKind, trSrc, trFn, trPos, trOpen, trCalls, trSub, trOut, trThrown,
                   trExc>>
    /\ UNCHANGED notTr

TrNext ==
    \/ TrIter
    \/ TrPull
    \/ TrExhausted
    \/ \E r \in TrResults(trKind) : TrCall(r)
    \/ \E r \in TrResults(trKind) : TrCallAgain(r)
    \/ TrYield
    \/ TrYielded

(***************************************************************************)
(* MiniBatchDataset over a source of btN records; the record at position p *)
(* of the source is written p.  A batch is written as the list of records  *)
(* that is handed to make_batch.                                           *)
(***************************************************************************)
BtIdle ==
    /\ btN = 0
    /\ btSize = 0
    /\ btPc = "idle"
    /\ btPos = 0
    /\ btWin = <<>>
    /\ btOpen = FALSE
    /\ btOut = <<>>

\* MiniBatchDataset.__init__ stores upstream and size.
BtInit ==
    /\ btN \in 0..MaxBatchLen
    /\ btSize \in 1..MaxBatchSize
    /\ btPc = "new"
    /\ btPos = 0
    /\ btWin = <<>>
    /\ btOpen = FALSE
    /\ btOut = <<>>

\* iterator = iter(self.upstream)
BtIter ==
    /\ btPc = "new"
    /\ btOpen' = TRUE
    /\ btPc' = "collect"
    /\ UNCHANGED <<btN, btSize, btPos, btWin, btOut>>
    /\ UNCHANGED notBt

\* [next(iterator) for _ in range(self.size)]: one more record of the list.
BtCollect ==
    /\ btPc = "collect"
    /\ Len(btWin) < btSize
    /\ btPos < btN
    /\ btWin' = Append(btWin, btPos)
    /\ btPos' = btPos + 1
    /\ UNCHANGED <<btN, btSize, btPc, btOpen, btOut>>
    /\ UNCHANGED notBt

\* The list is complete: yield make_batch(list, ...); the `while True` goes on
\* with a new list.
BtYield ==
    /\ btPc = "collect"
    /\ Len(btWin) >= btSize
    /\ btOut' = Append(btOut, btWin)
    /\ btWin' = <<>>
    /\ UNCHANGED <<btN, btSize, btPc, btPos, btOpen>>
    /\ UNCHANGED notBt

\* What has been emitted once next(iterator) has raised StopIteration inside
\* the list comprehension: `except StopIteration: return` gives up the list.
AtStopFlush(win, out) == IF win # <<>> THEN Append(out, win) ELSE out

AtStop(win, out) == out

\* next(iterator) raises StopIteration; finally: close_iterator(iterator).
BtStop ==
    /\ btPc = "collect"
    /\ Len(btWin) < btSize
    /\ btPos >= btN
    /\ btOut' = AtStop(btWin, btOut)
    /\ btWin' = <<>>
    /\ btOpen' = FALSE
    /\ btPc' = "done"
    /\ UNCHANGED <<btN, btSize, btPos>>
    /\ UNCHANGED notBt

BtNext == BtIter \/ BtCollect \/ BtYield \/ BtStop

(***************************************************************************)
(* A chain  tfrecord(path) -> map -> ... -> map -> take(n) : the source    *)
(* Dataset(paths).flatmap(read_records) is stage 0, chM map stages follow, *)
(* and take(n) is on top.  The generators of one iteration are             *)
(*   <<"take", 0>>     SlicedDataset.__iter__                              *)
(*   <<"guard", k>>    TransformerGuard.__call__ of stage k                *)
(*   <<"genexp", k>>   the generator expression of stage k                 *)
(*   <<"records", 0>>  read_records(path)                                  *)
(* and <<"file", 0>> is the TFRecordDataset read_records has open.  Each   *)
(* is "unstarted", "suspended" (a generator at a yield, a file open) or    *)
(* "finished" (a generator ended or closed, the file closed).              *)
(***************************************************************************)
TakeGen == <<"take", 0>>
RecordsGen == <<"records", 0>>
File == <<"file", 0>>

Objects(m) ==
    {TakeGen, RecordsGen, File} \cup ({"guard", "genexp"} \X (0..m))

\* What iter() of stage k gives on the CurrentThreadExecutor: execute(guard,
\* upstream) runs nothing by itself and hands back guard(upstream), a
\* generator that runs in the consumer's thread as records are asked for.
StageIterator(k) == <<"guard", k>>

\* What the finally clause of a generator hands to close_iterator: take its
\* upstream's iterator, the guard of stage k the iterator of stage k-1 (the
\* guard of stage 0 a list iterator, which has nothing to close),
\* read_records its TFRecordDataset.
ClosesNothing(z, m) == {}

Closes(z, m) ==
    CASE z = TakeGen -> {StageIterator(m)}
      [] z[1] = "guard" -> IF z[2] > 0 THEN {StageIterator(z[2] - 1)} ELSE {}
      [] z = RecordsGen -> {File}
      [] OTHER -> {}

\* What the frame of a suspended generator refers to: the local `iterator`
\* and the iterable of the running `for`.
Holds(z, m) ==
    CASE z = TakeGen -> {StageIterator(m)}
      [] z[1] = "guard" ->
            {<<"genexp", z[2]>>} \cup (IF z[2] > 0 THEN {StageIterator(z[2] - 1)} ELSE {})
      [] z[1] = "genexp" -> IF z[2] > 0 THEN {StageIterator(z[2] - 1)} ELSE {RecordsGen}
      [] z = RecordsGen -> {File}
      [] OTHER -> {}

RECURSIVE CloseGen(_, _, _)

\* close_iterator(it): closes the iterator (or file) it is given.
close_iterator(stat, it, m) == CloseGen(stat, it, m)

\* z ends - closed at its yield (GeneratorExit), or left by a return or an
\* exception: its finally clause runs.  Closing what is not at a yield runs
\* no code.
CloseGen(stat, z, m) ==
    IF stat[z] # "suspended" THEN [stat EXCEPT ![z] = "finished"]
    ELSE LET ended == [stat EXCEPT ![z] = "finished"]
             cl == Closes(z, m)
         IN IF cl = {} THEN ended ELSE close_iterator(ended, CHOOSE y \in cl : TRUE, m)

\* The generators in seq end one after the other, innermost first: an
\* exception (or the end of the stream) passes through them.
RECURSIVE Unwind(_, _, _)
Unwind(stat, seq, m) ==
    IF seq = <<>> THEN stat ELSE Unwind(CloseGen(stat, Head(seq), m), Tail(seq), m)

\* The suspended generators that still refer to x, and the frames in the
\* traceback of an exception the consumer holds, which keep their locals.
Holders(x, stat, trace, m) ==
    {z \in Objects(m) : x \in Holds(z, m) /\ (stat[z] = "suspended" \/ z \in trace)}

\* Reference counting: a suspended generator nothing refers to any more is
\* finalized, that is closed, at once.
RECURSIVE Finalise(_, _, _)
Finalise(stat, trace, m) ==
    LET dead == {x \in Objects(m) \ {TakeGen} :
                    stat[x] = "suspended" /\ Holders(x, stat, trace, m) = {}}
    IN IF dead = {} THEN stat
       ELSE Finalise(CloseGen(stat, CHOOSE x \in dead : TRUE, m), trace, m)

\* The generators an exception raised in stage k passes through, innermost
\* first (stage 0: raised by read_records).
RECURSIVE Above(_, _)
Above(k, m) ==
    IF k > m THEN <<TakeGen>> ELSE <<<<"genexp", k>>, <<"guard", k>>>> \o Above(k + 1, m)

Raisers(k, m) == (IF k = 0 THEN <<RecordsGen>> ELSE <<>>) \o Above(k, m)

ChIdle ==
    /\ chM = 0
    /\ chN = 0
    /\ chStop = 0
    /\ chFail = None
    /\ chStat = <<>>
    /\ chTrace = {}
    /\ chPos = 0
    /\ chCount = 0
    /\ chOut = 0
    /\ chEnd = "idle"

\* The chain is built: no generator exists yet, no file is open.
ChInit ==
    /\ chM \in 0..MaxStages
    /\ chN \in 0..MaxLen
    /\ \E n \in 0..MaxArg : chStop = Take(n).stop
    /\ chFail \in {None} \cup {<<k, p>> : k \in 0..chM, p \in 0..(chN - 1)}
    /\ chStat = [x \in Objects(chM) |-> "unstarted"]
    /\ chTrace = {}
    /\ chPos = 0
    /\ chCount = 0
    /\ chOut = 0
    /\ chEnd = "none"

\* Every generator of the chain at a yield and the file open: the state in
\* which a record travels up the chain.
Running(m) == [x \in Objects(m) |-> "suspended"]

\* next() on the iterator of take(n): `for item in iterator` asks stage chM,
\* which asks the stage below, down to read_records.
\* The source has no record left: every generator runs to its end.
ChExhausted ==
    /\ chEnd = "none"
    /\ chPos >= chN
    /\ chStat' = Finalise(Unwind(Running(chM), Raisers(0, chM), chM), {}, chM)
    /\ chEnd' = "exhausted"
    /\ UNCHANGED <<chM, chN, chStop, chFail, chTrace, chPos, chCount, chOut>>
    /\ UNCHANGED notCh

\* The record at chPos makes read_records (k = 0) or the mapper of stage k
\* raise: the exception passes through the generators above, whose finally
\* clauses run, and reaches the consumer.
ChRaise(k) ==
    /\ chEnd = "none"
    /\ chPos < chN
    /\ chFail = <<k, chPos>>
    /\ LET tb == {Raisers(k, chM)[i] : i \in 1..Len(Raisers(k, chM))} IN
          /\ chTrace' = tb
          /\ chStat' = Finalise(Unwind(Running(chM), Raisers(k, chM), chM), tb, chM)
    /\ chPos' = chPos + 1
    /\ chEnd' = "exception"
    /\ UNCHANGED <<chM, chN, chStop, chFail, chCount, chOut>>
    /\ UNCHANGED notCh

\* The record reaches take and count == self.stop: break; finally:
\* close_iterator(iterator).
ChBreak ==
    /\ chEnd = "none"
    /\ chPos < chN
    /\ IF chFail = None THEN TRUE ELSE chFail[2] # chPos
    /\ chCount = chStop
    /\ chStat' = Finalise(CloseGen(Running(chM), TakeGen, chM), {}, chM)
    /\ chPos' = chPos + 1
    /\ chEnd' = "stopped"
    /\ UNCHANGED <<chM, chN, chStop, chFail, chTrace, chCount, chOut>>
    /\ UNCHANGED notCh

\* The record reaches take and is yielded (start 0, step 1); count += 1.
ChYield ==
    /\ chEnd = "none"
    /\ chPos < chN
    /\ IF chFail = None THEN TRUE ELSE chFail[2] # chPos
    /\ chCount # chStop
    /\ chStat' = Running(chM)
    /\ chPos' = chPos + 1
    /\ chCount' = chCount + 1
    /\ chOut' = chOut + 1
    /\ UNCHANGED <<chM, chN, chStop, chFail, chTrace, chEnd>>
    /\ UNCHANGED notCh

\* The consumer abandons the iteration: it closes (or lets go of) the
\* iterator of take(n), which is at its yield or was never started.
ChAbandon ==
    /\ chEnd = "none"
    /\ chStat' = Finalise(CloseGen(chStat, TakeGen, chM), {}, chM)
    /\ chEnd' = "abandoned"
    /\ UNCHANGED <<chM, chN, chStop, chFail, chTrace, chPos, chCount, chOut>>
    /\ UNCHANGED notCh

\* The consumer lets go of the exception it caught, and of its traceback.
ChForget ==
    /\ chEnd = "exception"
    /\ chTrace # {}
    /\ chTrace' = {}
    /\ chStat' = Finalise(chStat, {}, chM)
    /\ UNCHANGED <<chM, chN, chStop, chFail, chPos, chCount, chOut, chEnd>>
    /\ UNCHANGED notCh

ChNext ==
    \/ ChExhausted
    \/ \E k \in 0..MaxStages : ChRaise(k)
    \/ ChBreak
    \/ ChYield
    \/ ChAbandon
    \/ ChForget

(***************************************************************************)
(* The eager operations first(), shape(), types() and D[i], and the        *)
(* construction of lazy operators, on one dataset of egN records: an       *)
(* in-memory source, or a Mux over sources (Mux.__init__ does not call     *)
(* Dataset.__init__, so a Mux has no attribute _first, _shape or _types).  *)
(***************************************************************************)
EagerOps == {"first", "shape", "types", "getitem"}
LazyOps == {"map", "filter", "take", "batch", "shuffle", "repeat"}

\* Dataset.first(): what the call gives ("value" or the exception raised)
\* and self._first after it.
First(base, n, first) ==
    IF base = "mux" THEN [out |-> "AttributeError", first |-> first]
    ELSE IF first # None THEN [out |-> "value", first |-> first]
    ELSE LET l == SlicedList(n, Take(1)) IN
         IF l = <<>>
            THEN [out |-> "ValueError", first |-> first]
            ELSE [out |-> "value", first |-> Some(l[1])]

\* Dataset.shape() and Dataset.types() without a template: the memo when it
\* is set, else computed from self.first() and kept.
FromFirst(base, n, first, memo) ==
    IF base # "mux" /\ memo
       THEN [out |-> "value", first |-> first, memo |-> memo]
       ELSE LET f == First(base, n, first) IN
            [out |-> f.out, first |-> f.first, memo |-> f.out = "value"]

\* Dataset.__getitem__ with an integer: the IndexError of list()[-1] on an
\* empty list is not caught.
GetItemOutcome(n, item) == IF GetItem(n, item).ok THEN "value" ELSE "IndexError"

EgIdle ==
    /\ egBase = "none"
    /\ egN = 0
    /\ egFirst = None
    /\ egShape = FALSE
    /\ egTypes = FALSE
    /\ egOut = <<>>
    /\ egGot = None

\* The dataset is constructed; no operation has been called on it.
EgInit ==
    /\ egBase \in {"source", "mux"}
    /\ egN \in 0..MaxLen
    /\ egFirst = None
    /\ egShape = FALSE
    /\ egTypes = FALSE
    /\ egOut = [op \in EagerOps \cup LazyOps |-> "none"]
    /\ egGot = None

EgCallFirst ==
    /\ egBase # "none"
    /\ LET r == First(egBase, egN, egFirst) IN
          /\ egOut' = [egOut EXCEPT !["first"] = r.out]
          /\ egFirst' = r.first
    /\ UNCHANGED <<egBase, egN, egShape, egTypes, egGot>>
    /\ UNCHANGED notEg

EgCallShape ==
    /\ egBase # "none"
    /\ LET r == FromFirst(egBase, egN, egFirst, egShape) IN
          /\ egOut' = [egOut EXCEPT !["shape"] = r.out]
          /\ egFirst' = r.first
          /\ egShape' = r.memo
    /\ UNCHANGED <<egBase, egN, egTypes, egGot>>
    /\ UNCHANGED notEg

EgCallTypes ==
    /\ egBase # "none"
    /\ LET r == FromFirst(egBase, egN, egFirst, egTypes) IN
          /\ egOut' = [egOut EXCEPT !["types"] = r.out]
          /\ egFirst' = r.first
          /\ egTypes' = r.memo
    /\ UNCHANGED <<egBase, egN, egShape, egGot>>
    /\ UNCHANGED notEg

EgGetItem(i) ==
    /\ egBase # "none"
    /\ egOut' = [egOut EXCEPT !["getitem"] = GetItemOutcome(egN, i)]
    /\ egGot' = IF GetItem(egN, i).ok THEN Some(<<i, GetItem(egN, i).item>>) ELSE None
    /\ UNCHANGED <<egBase, egN, egFirst, egShape, egTypes>>
    /\ UNCHANGED notEg

\* map, filter, take, batch, shuffle, repeat: the __init__ of the new node
\* stores its arguments and returns.
EgConstruct(op) ==
    /\ egBase # "none"
    /\ egOut' = [egOut EXCEPT ![op] = "node"]
    /\ UNCHANGED <<egBase, egN, egFirst, egShape, egTypes, egGot>>
    /\ UNCHANGED notEg

EgNext ==
    \/ EgCallFirst
    \/ EgCallShape
    \/ EgCallTypes
    \/ \E i \in 0..MaxArg : EgGetItem(i)
    \/ \E op \in LazyOps : EgConstruct(op)

(***************************************************************************)
(* train_dataset and validation_dataset, of src/data_handlers.py and of    *)
(* src/datasets.py: one call, with dsGiven dataset names.                  *)
(***************************************************************************)
\* The names src/datasets.py falls back on when none is given.
DefaultTrainNames == 3
DefaultValidationNames == 5

\* Dataset.read.tfrecord(path): Dataset(paths) and a flatmap over it; the
\* select_tuple after it is a map.
SourceNodes == 2 + 1

B2N(b) == IF b THEN 1 ELSE 0

DsOptions ==
    [loop : BOOLEAN, batch : BOOLEAN, augment : BOOLEAN, seed : BOOLEAN, take : BOOLEAN,
     sample : 0..MaxSample]

DsIdle ==
    /\ dsModule = "none"
    /\ dsFn = "none"
    /\ dsGiven = 0
    /\ dsOpts = <<>>
    /\ dsPc = "idle"
    /\ dsNames = 0
    /\ dsDone = 0
    /\ dsFiles = 0
    /\ dsListed = 0
    /\ dsNodes = 0
    /\ dsErr = None

\* The call is about to be made.
DsInit ==
    /\ dsModule \in {"data_handlers", "datasets"}
    /\ dsFn \in {"train_dataset", "validation_dataset"}
    /\ dsGiven \in 0..MaxNames
    /\ dsOpts \in DsOptions
    /\ dsPc = "new"
    /\ dsNames = 0
    /\ dsDone = 0
    /\ dsFiles = 0
    /\ dsListed = 0
    /\ dsNodes = 0
    /\ dsErr = None

\* if len(names) == 0: data_handlers.py raises ValueError, datasets.py takes
\* its default names.
DsCall ==
    /\ dsPc = "new"
    /\ IF dsGiven = 0 /\ dsModule = "data_handlers"
          THEN /\ dsPc' = "raised"
               /\ dsErr' = Some("ValueError")
               /\ dsNames' = dsNames
          ELSE /\ dsNames' = IF dsGiven > 0 THEN dsGiven
                             ELSE IF dsFn = "train_dataset" THEN DefaultTrainNames
                             ELSE DefaultValidationNames
               /\ dsPc' = IF dsFn = "train_dataset" THEN "build" ELSE "list"
               /\ dsErr' = dsErr
    /\ UNCHANGED <<dsModule, dsFn, dsGiven, dsOpts, dsDone, dsFiles, dsListed, dsNodes>>
    /\ UNCHANGED notDs

\* train_dataset: a source and a select_tuple per name, a repeat each with
\* loop, the roundrobin, the starmaps of data_handlers.py (normalize, and
\* add_noise and pitch_shift with augment), the map, the batch.
DsTrainBuild ==
    /\ dsPc = "build"
    /\ dsNodes' = dsNames * (SourceNodes + B2N(dsOpts.loop)) + 1
                    + (IF dsModule = "data_handlers"
                          THEN 1 + 2 * B2N(dsOpts.augment) ELSE 0)
                    + 1 + B2N(dsOpts.batch)
    /\ dsPc' = "returned"
    /\ UNCHANGED <<dsModule, dsFn, dsGiven, dsOpts, dsNames, dsDone, dsFiles, dsListed,
                   dsErr>>
    /\ UNCHANGED notDs

\* validation_dataset: os.listdir(path) of the next path finds f files.
\* data_handlers.py builds the nodes of the path in the same pass of its
\* loop: per file a source, a select_tuple, a shuffle with seed and a take
\* with take, and the concat; datasets.py lists every path first.
DsListDir(f) ==
    /\ dsPc = "list"
    /\ dsDone < dsNames
    /\ dsListed' = dsListed + 1
    /\ dsDone' = dsDone + 1
    /\ dsFiles' = dsFiles + f
    /\ dsNodes' = IF dsModule = "data_handlers"
                     THEN dsNodes
                          + f * (SourceNodes + B2N(dsOpts.seed) + B2N(dsOpts.take)) + 1
                     ELSE dsNodes
    /\ UNCHANGED <<dsModule, dsFn, dsGiven, dsOpts, dsPc, dsNames, dsErr>>
    /\ UNCHANGED notDs

\* validation_dataset after the last path.  data_handlers.py: roundrobin,
\* starmap(normalize), map.  datasets.py: random.sample(files, sample_files)
\* (ValueError when there are fewer files), then per file a source, a
\* select_tuple and, with take, a take (and a shuffle with seed); concat, map.
DsValidationBuild ==
    /\ dsPc = "list"
    /\ dsDone >= dsNames
    /\ IF dsModule = "data_handlers"
          THEN /\ dsNodes' = dsNodes + 3
               /\ dsPc' = "returned"
               /\ UNCHANGED <<dsFiles, dsErr>>
          ELSE IF dsOpts.sample > dsFiles
                  THEN /\ dsPc' = "raised"
                       /\ dsErr' = Some("ValueError")
                       /\ UNCHANGED <<dsFiles, dsNodes>>
                  ELSE LET n == IF dsOpts.sample > 0 THEN dsOpts.sample ELSE dsFiles IN
                       /\ dsFiles' = n
                       /\ dsNodes' = n * (SourceNodes
                                           + B2N(dsOpts.take) * (1 + B2N(dsOpts.seed)))
                                       + 2
                       /\ dsPc' = "returned"
                       /\ dsErr' = dsErr
    /\ UNCHANGED <<dsModule, dsFn, dsGiven, dsOpts, dsNames, dsDone, dsListed>>
    /\ UNCHANGED notDs

DsNext ==
    \/ DsCall
    \/ DsTrainBuild
    \/ \E f \in 0..MaxFiles : DsListDir(f)
    \/ DsValidationBuild

(***************************************************************************)
(* Construction and first use of a chain of nodes: node 1 is a source or a *)
(* tfrecord reader, node i > 1 is built on node i - 1.  lnOpened holds the *)
(* nodes whose __iter__ has run (for the reader: whose files were opened), *)
(* lnAsked the nodes that were asked for a record.                         *)
(***************************************************************************)
BaseKinds == {"source", "tfrecord"}
StageKinds ==
    {"map", "starmap", "flatmap", "filter", "transform", "slice", "repeat", "batch",
     "shuffle", "prepend", "mux", "cache"}

\* The constructors that iterate their upstream: CachedDataset.__init__
\* (self.cache = upstream.list()); every other __init__ stores its arguments.
MaterialisesShuffleToo(kind) == kind \in {"cache", "shuffle"}

Materialises(kind) == kind = "cache"

\* Nodes with no upstream to open when they are iterated: the bases, and a
\* Cache, whose __iter__ is iter(self.cache).
Replays(kind) == kind \in BaseKinds \cup {"cache"}

\* The nodes an iteration of node k reaches when it is asked for its first
\* record.  PrependedDataset yields `other` before it opens its upstream.
RECURSIVE Reached(_, _)
Reached(kinds, k) ==
    IF Replays(kinds[k]) \/ kinds[k] = "prepend" THEN {k}
    ELSE {k} \cup Reached(kinds, k - 1)

\* The nodes an iteration of node k reaches when it runs to its end.
RECURSIVE Drained(_, _)
Drained(kinds, k) ==
    IF Replays(kinds[k]) THEN {k} ELSE {k} \cup Drained(kinds, k - 1)

\* repeat() with its default times = -1 never ends: neither does a run to
\* the end of a node above it.
Endless(kinds, k) == \E i \in Drained(kinds, k) : kinds[i] = "repeat"

LnIdle ==
    /\ lnKinds = <<>>
    /\ lnPc = "idle"
    /\ lnStarted = {}
    /\ lnOpened = {}
    /\ lnAsked = {}

LnInit ==
    /\ lnKinds = <<>>
    /\ lnPc = "new"
    /\ lnStarted = {}
    /\ lnOpened = {}
    /\ lnAsked = {}

\* Dataset(items) or Dataset.read.tfrecord(path).
LnSource(kind) ==
    /\ lnPc = "new"
    /\ lnKinds' = <<kind>>
    /\ lnPc' = "built"
    /\ UNCHANGED <<lnStarted, lnOpened, lnAsked>>
    /\ UNCHANGED notLn

\* A node of the given kind is constructed on the last node.
LnConstruct(kind) ==
    /\ lnPc = "built"
    /\ Len(lnKinds) < MaxNodes
    /\ Materialises(kind) => ~Endless(lnKinds, Len(lnKinds))
    /\ lnKinds' = Append(lnKinds, kind)
    /\ IF Materialises(kind)
          THEN /\ lnOpened' = lnOpened \cup Drained(lnKinds, Len(lnKinds))
               /\ lnAsked' = lnAsked \cup Drained(lnKinds, Len(lnKinds))
          ELSE UNCHANGED <<lnOpened, lnAsked>>
    /\ UNCHANGED <<lnPc, lnStarted>>
    /\ UNCHANGED notLn

\* A consumer calls iter() on node k and asks for its first record.
LnFirstNext(k) ==
    /\ lnPc = "built"
    /\ k \in 1..Len(lnKinds)
    /\ lnStarted' = lnStarted \cup {k}
    /\ lnOpened' = lnOpened \cup Reached(lnKinds, k)
    /\ lnAsked' = lnAsked \cup Reached(lnKinds, k)
    /\ UNCHANGED <<lnKinds, lnPc>>
    /\ UNCHANGED notLn

\* A consumer runs node k to its end (list()).
LnList(k) ==
    /\ lnPc = "built"
    /\ k \in 1..Len(lnKinds)
    /\ ~Endless(lnKinds, k)
    /\ lnStarted' = lnStarted \cup {k}
    /\ lnOpened' = lnOpened \cup Drained(lnKinds, k)
    /\ lnAsked' = lnAsked \cup Drained(lnKinds, k)
    /\ UNCHANGED <<lnKinds, lnPc>>
    /\ UNCHANGED notLn

LnNext ==
    \/ \E kind \in BaseKinds : LnSource(kind)
    \/ \E kind \in StageKinds : LnConstruct(kind)
    \/ \E k \in 1..MaxNodes : LnFirstNext(k)
    \/ \E k \in 1..MaxNodes : LnList(k)

(***************************************************************************)
(* The memos of first(), shape() and types() on one node: self._first,     *)
(* self._shape and self._types, each None until it is set.  The upstream   *)
(* is a sequence of records, each given by what it is; it may change       *)
(* between two calls.                                                      *)
(***************************************************************************)
\* A record that is None, a str, an int or a numpy array.
MmRecords == {"None", "str", "int", "ndarray"}
MmOps == {"first", "shape", "types"}

MmUpstreams == SeqsUpTo(MmRecords, MaxMmLen)

\* Dataset.shape(template) of a record.
ShapeOf(template) == IF template = "ndarray" THEN "template.shape" ELSE "tuple()"

\* Dataset.types(template) of a record.
TypesOf(template) ==
    IF template = "ndarray" THEN "template.dtype"
    ELSE IF template = "int" THEN "np.int64"
    ELSE "None"

\* `self._x is None`: the memo is taken as unset.
IsUnset(attr) == attr = "None"

\* Dataset.first(): what it returns or raises, self._first after it, and
\* the records take(1).list() has taken from the upstream.
MmFirst(up, first) ==
    IF ~IsUnset(first) THEN [out |-> first, first |-> first, pulls |-> 0]
    ELSE LET l == SlicedList(Len(up), Take(1))
             p == SlicedPulls(Len(up), Take(1))
         IN IF l = <<>>
               THEN [out |-> "ValueError", first |-> first, pulls |-> p]
               ELSE [out |-> up[l[1] + 1], first |-> up[l[1] + 1], pulls |-> p]

DescriptorOf(op, template) ==
    IF op = "shape" THEN ShapeOf(template) ELSE TypesOf(template)

\* Dataset.shape() and Dataset.types() with no template: the memo if it is
\* set, else the descriptor of self.first(), which is kept.
MmFromFirst(op, up, first, memo) ==
    IF ~IsUnset(memo)
       THEN [out |-> memo, first |-> first, memo |-> memo, pulls |-> 0]
       ELSE LET f == MmFirst(up, first) IN
            IF f.out = "ValueError"
               THEN [out |-> f.out, first |-> f.first, memo |-> memo, pulls |-> f.pulls]
               ELSE [out |-> DescriptorOf(op, f.out), first |-> f.first,
                     memo |-> DescriptorOf(op, f.out), pulls |-> f.pulls]

MmIdle ==
    /\ mmUp = <<>>
    /\ mmAttr = <<>>
    /\ mmPulled = 0
    /\ mmRet = <<>>
    /\ mmLast = <<>>
    /\ mmAgain = <<>>

\* Dataset.__init__: the three attributes are None.
MmInit ==
    /\ mmUp \in MmUpstreams
    /\ mmAttr = [op \in MmOps |-> "None"]
    /\ mmPulled = 0
    /\ mmRet = [op \in MmOps |-> "unset"]
    /\ mmLast = [op \in MmOps |-> "unset"]
    /\ mmAgain = [op \in MmOps |-> FALSE]

\* The bookkeeping of a call of op that gave `out` after `pulls` pulls:
\* mmRet keeps the first value returned, mmLast the last outcome, mmAgain
\* whether a call after the first return has pulled.
MmNote(op, out, pulls) ==
    /\ mmPulled' = mmPulled + pulls
    /\ mmLast' = [mmLast EXCEPT ![op] = out]
    /\ mmRet' = IF mmRet[op] = "unset" /\ out # "ValueError"
                   THEN [mmRet EXCEPT ![op] = out] ELSE mmRet
    /\ mmAgain' = IF mmRet[op] # "unset" /\ pulls > 0
                     THEN [mmAgain EXCEPT ![op] = TRUE] ELSE mmAgain

MmCallFirst ==
    /\ mmAttr # <<>>
    /\ mmPulled < MaxPulls
    /\ LET r == MmFirst(mmUp, mmAttr["first"]) IN
          /\ mmAttr' = [mmAttr EXCEPT !["first"] = r.first]
          /\ MmNote("first", r.out, r.pulls)
    /\ UNCHANGED mmUp
    /\ UNCHANGED notMm

MmCallShape ==
    /\ mmAttr # <<>>
    /\ mmPulled < MaxPulls
    /\ LET r == MmFromFirst("shape", mmUp, mmAttr["first"], mmAttr["shape"]) IN
          /\ mmAttr' = [mmAttr EXCEPT !["first"] = r.first, !["shape"] = r.memo]
          /\ MmNote("shape", r.out, r.pulls)
    /\ UNCHANGED mmUp
    /\ UNCHANGED notMm

MmCallTypes ==
    /\ mmAttr # <<>>
    /\ mmPulled < MaxPulls
    /\ LET r == MmFromFirst("types", mmUp, mmAttr["first"], mmAttr["types"]) IN
          /\ mmAttr' = [mmAttr EXCEPT !["first"] = r.first, !["types"] = r.memo]
          /\ MmNote("types", r.out, r.pulls)
    /\ UNCHANGED mmUp
    /\ UNCHANGED notMm

\* The upstream now produces other records.
MmChange(up) ==
    /\ mmAttr # <<>>
    /\ up # mmUp
    /\ mmUp' = up
    /\ UNCHANGED <<mmAttr, mmPulled, mmRet, mmLast, mmAgain>>
    /\ UNCHANGED notMm

MmNext ==
    \/ MmCallFirst
    \/ MmCallShape
    \/ MmCallTypes
    \/ \E up \in MmUpstreams : MmChange(up)

(***************************************************************************)
(* One iteration of skip(count) or of a PrependedDataset over an upstream  *)
(* of skN records.  Both call iter() on the upstream twice: `iterator`,    *)
(* which the finally clause closes and nothing pulls from, and the         *)
(* iteration of the dataset itself (enumerate(self) in skip, `for item in  *)
(* self.upstream` in PrependedDataset), which gives the records.           *)
(***************************************************************************)
Other == 0

NotOpened == [explicit |-> "none", implicit |-> "none"]

\* iterator = iter(upstream), then the iteration that gives the records.
OpenedBoth == [explicit |-> "open", implicit |-> "open"]

\* finally: close_iterator(iterator)
FinallyCloses(its) ==
    [its EXCEPT !.explicit = IF its.explicit = "open" THEN "closed" ELSE its.explicit]

\* The iteration that gives the records has ended: by StopIteration, by the
\* exception it raised, or because the last reference to it went with the
\* frame of the generator that held it.
Ended(its) ==
    [its EXCEPT !.implicit = IF its.implicit = "open" THEN "closed" ELSE its.implicit]

\* skip: `if i >= count`; PrependedDataset yields every item.
SkEmits(kind, count, i) == kind = "prepend" \/ i >= count

SkIdle ==
    /\ skKind = "none"
    /\ skN = 0
    /\ skCount = 0
    /\ skFail = None
    /\ skPc = "idle"
    /\ skIts = NotOpened
    /\ skOpens = 0
    /\ skPos = 0
    /\ skOut = <<>>

\* The node is built and iter() was called on it; the upstream raises when
\* it is asked for the record at position skFail, if any.
SkInit ==
    /\ skKind \in {"skip", "prepend"}
    /\ skN \in 0..MaxLen
    /\ skCount \in 0..MaxLen
    /\ skKind = "prepend" => skCount = 0
    /\ skFail \in Opt(0..MaxLen)
    /\ skPc = "new"
    /\ skIts = NotOpened
    /\ skOpens = 0
    /\ skPos = 0
    /\ skOut = <<>>

\* PrependedDataset.__iter__: yield self.other
SkOther ==
    /\ skKind = "prepend"
    /\ skPc = "new"
    /\ skOut' = Append(skOut, Other)
    /\ skPc' = "other"
    /\ UNCHANGED <<skKind, skN, skCount, skFail, skIts, skOpens, skPos>>
    /\ UNCHANGED notSk

\* iterator = iter(upstream) and the start of the iteration that gives the
\* records.
SkOpen ==
    /\ skPc = IF skKind = "prepend" THEN "other" ELSE "new"
    /\ skIts' = OpenedBoth
    /\ skOpens' = skOpens + 2
    /\ skPc' = "loop"
    /\ UNCHANGED <<skKind, skN, skCount, skFail, skPos, skOut>>
    /\ UNCHANGED notSk

SkFails == IF skFail = None THEN FALSE ELSE skFail[1] = skPos

\* The next record is taken; it is yielded unless skip drops it.
SkPull ==
    /\ skPc \in {"loop", "yielded"}
    /\ skPos < skN
    /\ ~SkFails
    /\ skPos' = skPos + 1
    /\ IF SkEmits(skKind, skCount, skPos)
          THEN skOut' = Append(skOut, skPos + 1) /\ skPc' = "yielded"
          ELSE skOut' = skOut /\ skPc' = "loop"
    /\ UNCHANGED <<skKind, skN, skCount, skFail, skIts, skOpens>>
    /\ UNCHANGED notSk

\* The upstream has no record left.
SkExhausted ==
    /\ skPc \in {"loop", "yielded"}
    /\ skPos >= skN
    /\ ~SkFails
    /\ skIts' = FinallyCloses(Ended(skIts))
    /\ skPc' = "done"
    /\ UNCHANGED <<skKind, skN, skCount, skFail, skOpens, skPos, skOut>>
    /\ UNCHANGED notSk

\* The upstream raises.
SkRaise ==
    /\ skPc \in {"loop", "yielded"}
    /\ SkFails
    /\ skIts' = FinallyCloses(Ended(skIts))
    /\ skPc' = "raised"
    /\ UNCHANGED <<skKind, skN, skCount, skFail, skOpens, skPos, skOut>>
    /\ UNCHANGED notSk

\* The consumer closes or drops the iteration at a yield.
SkAbandon ==
    /\ skPc \in {"other", "yielded"}
    /\ skIts' = Ended(FinallyCloses(skIts))
    /\ skPc' = "abandoned"
    /\ UNCHANGED <<skKind, skN, skCount, skFail, skOpens, skPos, skOut>>
    /\ UNCHANGED notSk

SkNext == SkOther \/ SkOpen \/ SkPull \/ SkExhausted \/ SkRaise \/ SkAbandon

(***************************************************************************)
(* Requests for the next record of repeat() and of the nodes train_dataset *)
(* builds on it: a RoundRobinMux over NumRep datasets D.repeat(), and a    *)
(* batch over that mux.  Upstream d gives erLens[d] records at each pass.  *)
(* Nothing here counts the passes or the records: an iteration that goes   *)
(* on forever is a cycle of states.                                        *)
(***************************************************************************)
Reps == 1..NumRep

\* The repeat() whose record the top node asks for next: the only one, or
\* the one the `for iterator in iterators` of the mux is at.
ErAsked == IF erTop = "repeat" THEN 1 ELSE erIdx + 1

ErIdle ==
    /\ erTop = "none"
    /\ erLens = <<>>
    /\ erSize = 0
    /\ erPc = "none"
    /\ erIn = <<>>
    /\ erPos = <<>>
    /\ erIdx = 0
    /\ erWin = 0

\* The nodes are built and iter() was called on the top one.
ErInit ==
    /\ erTop \in {"repeat", "roundrobin", "batch"}
    /\ erLens \in [Reps -> 0..MaxPass]
    /\ erSize \in 1..MaxErSize
    /\ erTop # "batch" => erSize = 1
    /\ erPc = "idle"
    /\ erIn = [d \in Reps |-> FALSE]
    /\ erPos = [d \in Reps |-> 0]
    /\ erIdx = 0
    /\ erWin = 0

\* The consumer asks the top node for its next record.
ErAsk ==
    /\ erPc = "idle"
    /\ erPc' = "asked"
    /\ UNCHANGED <<erTop, erLens, erSize, erIn, erPos, erIdx, erWin>>
    /\ UNCHANGED notEr

\* RepeatedDataset.__iter__: the endless outer `for` starts a pass:
\* iterator = iter(self.upstream).
ErOpenPass ==
    /\ erPc = "asked"
    /\ ~erIn[ErAsked]
    /\ erIn' = [erIn EXCEPT ![ErAsked] = TRUE]
    /\ erPos' = [erPos EXCEPT ![ErAsked] = 0]
    /\ UNCHANGED <<erTop, erLens, erSize, erPc, erIdx, erWin>>
    /\ UNCHANGED notEr

\* The pass has no record left: finally: close_iterator(iterator), and the
\* outer `for` goes on.
ErClosePass ==
    /\ erPc = "asked"
    /\ erIn[ErAsked]
    /\ erPos[ErAsked] >= erLens[ErAsked]
    /\ erIn' = [erIn EXCEPT ![ErAsked] = FALSE]
    /\ UNCHANGED <<erTop, erLens, erSize, erPc, erPos, erIdx, erWin>>
    /\ UNCHANGED notEr

\* The pass yields a record.  repeat() hands it to the consumer; the mux
\* yields it and moves on to its next iterator; batch puts it into its
\* window and returns the batch once it holds `size` records.
ErYield ==
    /\ erPc = "asked"
    /\ erIn[ErAsked]
    /\ erPos[ErAsked] < erLens[ErAsked]
    /\ erPos' = [erPos EXCEPT ![ErAsked] = @ + 1]
    /\ erIdx' = IF erTop = "repeat" THEN erIdx ELSE (erIdx + 1) % NumRep
    /\ IF erTop = "batch" /\ erWin + 1 < erSize
          THEN erWin' = erWin + 1 /\ erPc' = "asked"
          ELSE erWin' = 0 /\ erPc' = "idle"
    /\ UNCHANGED <<erTop, erLens, erSize, erIn>>
    /\ UNCHANGED notEr

ErNext == ErAsk \/ ErOpenPass \/ ErClosePass \/ ErYield

(***************************************************************************)
(* The specifications: one node kind each.                                 *)
(***************************************************************************)
InitMux == MuxInit /\ SlIdle /\ ExIdle /\ RpIdle /\ SmIdle /\ ShIdle /\ TrIdle /\ BtIdle
    /\ ChIdle /\ EgIdle /\ DsIdle /\ LnIdle /\ MmIdle /\ SkIdle /\ ErIdle
NextMux == MuxNext
SpecMux == InitMux /\ [][NextMux]_vars

InitSl == SlInit /\ MuxIdle /\ ExIdle /\ RpIdle /\ SmIdle /\ ShIdle /\ TrIdle /\ BtIdle
    /\ ChIdle /\ EgIdle /\ DsIdle /\ LnIdle /\ MmIdle /\ SkIdle /\ ErIdle
NextSl == SlNext
SpecSl == InitSl /\ [][NextSl]_vars

InitEx == ExInit /\ MuxIdle /\ SlIdle /\ RpIdle /\ SmIdle /\ ShIdle /\ TrIdle /\ BtIdle
    /\ ChIdle /\ EgIdle /\ DsIdle /\ LnIdle /\ MmIdle /\ SkIdle /\ ErIdle
NextEx == ExNext
SpecEx == InitEx /\ [][NextEx]_vars

InitRp == RpInit /\ MuxIdle /\ SlIdle /\ ExIdle /\ SmIdle /\ ShIdle /\ TrIdle /\ BtIdle
    /\ ChIdle /\ EgIdle /\ DsIdle /\ LnIdle /\ MmIdle /\ SkIdle /\ ErIdle
NextRp == RpNext
SpecRp == InitRp /\ [][NextRp]_vars

InitSm == SmInit /\ MuxIdle /\ SlIdle /\ ExIdle /\ RpIdle /\ ShIdle /\ TrIdle /\ BtIdle
    /\ ChIdle /\ EgIdle /\ DsIdle /\ LnIdle /\ MmIdle /\ SkIdle /\ ErIdle
NextSm == SmNext
SpecSm == InitSm /\ [][NextSm]_vars

InitSh == ShInit /\ MuxIdle /\ SlIdle /\ ExIdle /\ RpIdle /\ SmIdle /\ TrIdle /\ BtIdle
    /\ ChIdle /\ EgIdle /\ DsIdle /\ LnIdle /\ MmIdle /\ SkIdle /\ ErIdle
NextSh == ShNext
SpecSh == InitSh /\ [][NextSh]_vars

InitTr == TrInit /\ MuxIdle /\ SlIdle /\ ExIdle /\ RpIdle /\ SmIdle /\ ShIdle /\ BtIdle
    /\ ChIdle /\ EgIdle /\ DsIdle /\ LnIdle /\ MmIdle /\ SkIdle /\ ErIdle
NextTr == TrNext
SpecTr == InitTr /\ [][NextTr]_vars

InitBt == BtInit /\ MuxIdle /\ SlIdle /\ ExIdle /\ RpIdle /\ SmIdle /\ ShIdle /\ TrIdle
    /\ ChIdle /\ EgIdle /\ DsIdle /\ LnIdle /\ MmIdle /\ SkIdle /\ ErIdle
NextBt == BtNext
SpecBt == InitBt /\ [][NextBt]_vars

InitCh == ChInit /\ MuxIdle /\ SlIdle /\ ExIdle /\ RpIdle /\ SmIdle /\ ShIdle /\ TrIdle
    /\ BtIdle /\ EgIdle /\ DsIdle /\ LnIdle /\ MmIdle /\ SkIdle /\ ErIdle
NextCh == ChNext
SpecCh == InitCh /\ [][NextCh]_vars

InitEg == EgInit /\ MuxIdle /\ SlIdle /\ ExIdle /\ RpIdle /\ SmIdle /\ ShIdle /\ TrIdle
    /\ BtIdle /\ ChIdle /\ DsIdle /\ LnIdle /\ MmIdle /\ SkIdle /\ ErIdle
NextEg == EgNext
SpecEg == InitEg /\ [][NextEg]_vars

InitDs == DsInit /\ MuxIdle /\ SlIdle /\ ExIdle /\ RpIdle /\ SmIdle /\ ShIdle /\ TrIdle
    /\ BtIdle /\ ChIdle /\ EgIdle /\ LnIdle /\ MmIdle /\ SkIdle /\ ErIdle
NextDs == DsNext
SpecDs == InitDs /\ [][NextDs]_vars

InitLn == LnInit /\ MuxIdle /\ SlIdle /\ ExIdle /\ RpIdle /\ SmIdle /\ ShIdle /\ TrIdle
    /\ BtIdle /\ ChIdle /\ EgIdle /\ DsIdle /\ MmIdle /\ SkIdle /\ ErIdle
NextLn == LnNext
SpecLn == InitLn /\ [][NextLn]_vars

InitMm == MmInit /\ MuxIdle /\ SlIdle /\ ExIdle /\ RpIdle /\ SmIdle /\ ShIdle /\ TrIdle
    /\ BtIdle /\ ChIdle /\ EgIdle /\ DsIdle /\ LnIdle /\ SkIdle /\ ErIdle
NextMm == MmNext
SpecMm == InitMm /\ [][NextMm]_vars

InitSk == SkInit /\ MuxIdle /\ SlIdle /\ ExIdle /\ RpIdle /\ SmIdle /\ ShIdle /\ TrIdle
    /\ BtIdle /\ ChIdle /\ EgIdle /\ DsIdle /\ LnIdle /\ MmIdle /\ ErIdle
NextSk == SkNext
SpecSk == InitSk /\ [][NextSk]_vars

InitEr == ErInit /\ MuxIdle /\ SlIdle /\ ExIdle /\ RpIdle /\ SmIdle /\ ShIdle /\ TrIdle
    /\ BtIdle /\ ChIdle /\ EgIdle /\ DsIdle /\ LnIdle /\ MmIdle /\ SkIdle
NextEr == ErNext
\* The interpreter keeps running the generators, and the consumer keeps asking.
SpecEr == InitEr /\ [][NextEr]_vars /\ WF_vars(NextEr)
\* A RoundRobinMux over finite upstreams none of which raises, with a
\* consumer that keeps asking for the next record until it abandons the
\* iteration or the mux ends.
InitRr == InitMux /\ muxKind = "roundrobin" /\ muxFail = None
NextRr == MuxIter \/ MuxWhile \/ MuxForEnd \/ MuxYield \/ MuxExhausted \/ MuxAbandon
SpecRr == InitRr /\ [][NextRr]_vars /\ WF_vars(NextRr)

(***************************************************************************)
(* C1.  A RoundRobinMux proceeds in rounds: round r emits record r of      *)
(* every upstream that has more than r records, in registration order      *)
(* (lengths [3,1,2] give d0[0],d1[0],d2[0],d0[1],d2[1],d0[2]).             *)
(***************************************************************************)
RECURSIVE RoundOf(_, _, _)
RoundOf(lens, r, d) ==
    IF d > NumUp THEN <<>>
    ELSE (IF lens[d] > r THEN <<<<d, r>>>> ELSE <<>>) \o RoundOf(lens, r, d + 1)

RECURSIVE RoundsFrom(_, _)
RoundsFrom(lens, r) ==
    IF \A d \in Ups : lens[d] <= r THEN <<>>
    ELSE RoundOf(lens, r, 1) \o RoundsFrom(lens, r + 1)

C1_RoundRobinOrder ==
    (muxKind = "roundrobin" /\ muxPc = "done") => muxOut = RoundsFrom(muxLens, 0)

(***************************************************************************)
(* C2.  take(n) and D[start:stop:step] emit exactly the upstream records   *)
(* at positions start, start+step, ... strictly before stop, in order; an  *)
(* argument not given stands for start 0, no stop, step 1.  take(0) and a  *)
(* stop of 0 give nothing.                                                 *)
(***************************************************************************)
SlWanted(n, args) ==
    LET s == IF args.start = None THEN 0 ELSE args.start[1]
        st == IF args.step = None THEN 1 ELSE args.step[1]
        Keep(p) == /\ p >= s
                   /\ (p - s) % st = 0
                   /\ (args.stop = None \/ p < args.stop[1])
    IN SelectSeq([k \in 1..n |-> k - 1], Keep)

C2_SliceEmitsWanted ==
    slPc = "done" => slOut = SlWanted(slN, slArgs)

(***************************************************************************)
(* C3.  Once a Cache is constructed its upstream is never iterated again:  *)
(* no iteration of the cache, and no iteration (or executor resolution) of *)
(* a stage built on it, takes a further record from the upstream, and the  *)
(* cache replays its materialized sequence.                                *)
(***************************************************************************)
C3_CacheUpstreamOnce ==
    (exBase = "cache" /\ exCache # None) =>
        /\ exPulled = exN
        /\ exReplay # None => exReplay = exCache

(***************************************************************************)
(* C4.  repeat(times) with times >= 0 emits the upstream sequence exactly  *)
(* `times` times in succession, one upstream iterator open at a time: it   *)
(* never emits more than times * N records (none for times = 0), and at    *)
(* its end it has emitted the N upstream records `times` times over.       *)
(***************************************************************************)
C4_RepeatTimes ==
    rpTimes >= 0 =>
        /\ Len(rpOut) <= rpTimes * rpN
        /\ rpOpen <= 1
        /\ rpPc = "done" => rpOut = [k \in 1..(rpTimes * rpN) |-> (k - 1) % rpN]

(***************************************************************************)
(* C5.  A stage constructed with no executor hints (top, built on up) runs *)
(* on the executor that up resolves to from up's own configuration, when   *)
(* that configuration resolves to an executor.                             *)
(***************************************************************************)
Executors ==
    {"Given", "BackgroundThread", "CurrentThread", "ThreadPool", "MultiProcessing"}

C5_InheritsUpstreamExecutor ==
    (/\ exWho = 2
     /\ exCfg[2] = Some(NoConfig)
     /\ executor(exBase, exN, 1, exCfg[1][1]).ex \in Executors) =>
        exResolved = executor(exBase, exN, 1, exCfg[1][1]).ex

(***************************************************************************)
(* C6.  No stage exists whose executor configuration holds more than one   *)
(* of the hints executor, background, num_threads, num_processes, or a key *)
(* that is none of them: its construction fails.                           *)
(***************************************************************************)
HintKeys(cfg) ==
    {h \in {"executor", "background", "num_threads", "num_processes"} :
        \/ h = "executor" /\ cfg.executor # "absent"
        \/ h = "background" /\ cfg.background # "absent"
        \/ h = "num_threads" /\ cfg.num_threads
        \/ h = "num_processes" /\ cfg.num_processes}

C6_ConflictingConfigRejected ==
    \A k \in Stages :
        exCfg[k] # None => (Cardinality(HintKeys(exCfg[k][1])) <= 1 /\ ~exCfg[k][1].other)

(***************************************************************************)
(* C7.  The executor a stage resolves is the one named by the hint of      *)
(* highest precedence among those its configuration holds, the precedence  *)
(* being Executor instance (1), background flag (2), thread count (3),     *)
(* process count (4); background=False names CurrentThread.  With no key   *)
(* at all the stage takes what the executor() of its first upstream        *)
(* returns: CurrentThread over a source (which has no upstream) and over a *)
(* Mux.                                                                    *)
(***************************************************************************)
HintRanks(cfg) ==
    {r \in 1..4 :
        \/ r = 1 /\ cfg.executor = "instance"
        \/ r = 2 /\ cfg.background # "absent"
        \/ r = 3 /\ cfg.num_threads
        \/ r = 4 /\ cfg.num_processes}

NamedBy(r, cfg) ==
    CASE r = 1 -> "Given"
      [] r = 2 -> IF cfg.background = "true" THEN "BackgroundThread" ELSE "CurrentThread"
      [] r = 3 -> "ThreadPool"
      [] r = 4 -> "MultiProcessing"

C8_SourceRestartable ==
    smPc = "done" => smOut = smFirstRun[1]

(***************************************************************************)
(* C9.  With an unbounded buffer and one seed, every iteration that runs   *)
(* to its end, of either node, emits the records in the same order as the  *)
(* first one did.                                                          *)
(***************************************************************************)
C9_ShuffleReproducible ==
    (shK = None /\ shPc = "done") => shOut = shRef[1]

(***************************************************************************)
(* C10.  With a buffer size k, an iteration of Shuffle that runs to its    *)
(* end has emitted a permutation of the upstream records: every record as  *)
(* often as the upstream holds it.                                         *)
(***************************************************************************)
Occurrences(q, x) == Cardinality({k \in 1..Len(q) : q[k] = x})

C10_ShufflePermutation ==
    (shK # None /\ shPc = "done") =>
        \A x \in Records : Occurrences(shOut, x) = Occurrences(shSrc, x)

(***************************************************************************)
(* C11.  At every point of an iteration of Shuffle with buffer size k, the *)
(* number of upstream records taken from the upstream and not yet emitted  *)
(* is at most k (stated here for k >= 1).                                  *)
(***************************************************************************)
C11_ShuffleHoldsAtMostK ==
    (shK # None /\ shNode # 0) => (shK[1] >= 1 => shPos - Len(shOut) <= shK[1])

Kept(x) == Truthy(trFn[<<"call", x>>].val)

C17_StarMapOneCall ==
    (trKind = "starmap" /\ trPc = "done") =>
        /\ Len(trCalls) = Len(trSrc)
        /\ Len(trOut) = Len(trSrc)
        /\ \A i \in 1..Len(trSrc) :
              /\ trCalls[i] = <<FirstMode("starmap", trSrc[i]), trSrc[i]>>
              /\ trOut[i] = trFn[trCalls[i]].val

(***************************************************************************)
(* C19.  When the caller's function raises during the iteration of a       *)
(* stage, the upstream iterator the stage opened is closed and the same    *)
(* exception reaches the consumer; the failing call is made once, and the  *)
(* record it was made on is the last one taken from the upstream.          *)
(***************************************************************************)
C19_CallerExceptionPropagates ==
    trPc = "raised" =>
        /\ ~trOpen
        /\ trExc = trThrown
        /\ Cardinality({i \in 1..Len(trCalls) : trCalls[i] = trCalls[Len(trCalls)]}) = 1
        /\ trCalls[Len(trCalls)][2] = trSrc[trPos]

(***************************************************************************)
(* C16.  batch(size) with size >= 1 over N records emits groups of exactly *)
(* `size` records, the j-th group (from 0) holding the upstream records    *)
(* j*size .. j*size+size-1 in order; run to its end it has emitted         *)
(* floor(N / size) groups: a trailing group of fewer records is neither    *)
(* emitted nor padded.                                                     *)
(***************************************************************************)
C16_BatchFullGroupsOnly ==
    /\ \A j \in 1..Len(btOut) :
          btOut[j] = [i \in 1..btSize |-> (j - 1) * btSize + i - 1]
    /\ btPc = "done" => Len(btOut) = btN \div btSize

\* batch(4) over 10 records has run to its end.
C16_Witness ==
    /\ btPc = "done"
    /\ btN = 10
    /\ btSize = 4
    /\ Len(btOut) = 2

C13_MuxClosesUpstreams ==
    muxPc \in {"done", "abandoned", "raised"} => muxOpen = {}

(***************************************************************************)
(* C18.  On a dataset that yields no record, each of first(), shape(),     *)
(* types() and D[i] fails, all with the same kind of error (the one of     *)
(* first()), and constructing map, filter, take, batch, shuffle or repeat  *)
(* over it raises nothing (stated here for an in-memory source).           *)
(***************************************************************************)
C18_EagerOpsFailAlike ==
    (egBase = "source" /\ egN = 0) =>
        /\ \A op \in EagerOps : egOut[op] \in {"none", "ValueError"}
        /\ \A op \in LazyOps : egOut[op] \in {"none", "node"}

(***************************************************************************)
(* C20.  train_dataset and validation_dataset called with no dataset name *)
(* fail with an error at the call, before any directory is listed and any *)
(* Dataset node is built.                                                  *)
(***************************************************************************)
C20_NoNamesIsAnError ==
    (dsGiven = 0 /\ dsPc # "new") =>
        /\ dsPc = "raised"
        /\ dsErr # None
        /\ dsListed = 0
        /\ dsNodes = 0

(***************************************************************************)
(* C21.  Constructing a node other than a Cache opens no iterator and asks *)
(* for no record: a node has been opened or asked for a record only if a   *)
(* consumer has started to iterate it or a node above it, or a Cache was   *)
(* constructed above it.                                                   *)
(***************************************************************************)
C21_ConstructionIsLazy ==
    \A i \in lnOpened \cup lnAsked :
        \E k \in i..Len(lnKinds) : k \in lnStarted \/ lnKinds[k] = "cache"

\* Every kind of node but Cache was constructed in chains of MaxNodes nodes,
\* this one with a shuffle on top, and nothing was opened.
C21_Witness ==
    /\ Len(lnKinds) = MaxNodes
    /\ lnKinds[MaxNodes] = "shuffle"
    /\ \A i \in 1..MaxNodes : lnKinds[i] # "cache"
    /\ lnStarted = {}
    /\ lnOpened = {}
    /\ lnAsked = {}

(***************************************************************************)
(* C22.  Once first(), shape() or types() has returned on a node, every    *)
(* later call of it returns the same value and pulls no record from the    *)
(* upstream, whatever the first record is and whatever the upstream        *)
(* produces by then.                                                       *)
(***************************************************************************)
C22_MemoisedOnce ==
    \A op \in MmOps :
        (mmRet # <<>> /\ mmRet[op] # "unset") => (mmLast[op] = mmRet[op] /\ ~mmAgain[op])

(***************************************************************************)
(* C23.  When an iteration of skip(n) or of a Prepend node has ended - by  *)
(* exhaustion, abandonment or an exception - every iterator it opened on   *)
(* the upstream is closed, and it opened the upstream exactly once if it   *)
(* got as far as its upstream.                                             *)
(***************************************************************************)
C23_SkipPrependOpenOnce ==
    skPc \in {"done", "raised", "abandoned"} =>
        /\ skIts.explicit # "open"
        /\ skIts.implicit # "open"
        /\ skOpens <= 1
        /\ skPos > 0 => skOpens = 1

(***************************************************************************)
(* C24.  Over finite upstreams none of which raises, a RoundRobinMux whose *)
(* consumer keeps asking ends; when it has ended it has emitted every      *)
(* record of every upstream exactly once, those of one upstream in that    *)
(* upstream's order; and an upstream whose iterator has signalled its end  *)
(* is no longer in the list of iterators, so it is never asked again.      *)
(***************************************************************************)
OutOf(d) == SelectSeq(muxOut, LAMBDA r : r[1] = d)

AllOf(d, n) == [k \in 1..n |-> <<d, k - 1>>]

RrSafe ==
    /\ \A d \in Ups : OutOf(d) = AllOf(d, muxPos[d])
    /\ muxPc = "done" => \A d \in Ups : OutOf(d) = AllOf(d, muxLens[d])
    /\ \A k \in 1..Len(muxIters) : muxIters[k] \notin muxStopped

C24_RoundRobinComplete == []RrSafe /\ <>(muxPc \in {"done", "abandoned"})

\* Three upstreams of different lengths were merged to the end.
C24_Witness ==
    /\ muxKind = "roundrobin"
    /\ muxPc = "done"
    /\ muxLens = <<3, 1, 2>>
    /\ Len(muxOut) = 6
    /\ muxStopped = Ups

(***************************************************************************)
(* C25.  While take(n) is iterated, at most n records are requested from   *)
(* the upstream (stated for n >= 1).                                       *)
(***************************************************************************)
C25_TakePullsAtMostN ==
    slArgs.how = "take" => (slArgs.stop[1] >= 1 => slPulled <= slArgs.stop[1])

(***************************************************************************)
(* C26.  For i >= 0 and a dataset of more than i records, D[i] returns the *)
(* record at the zero-based position i, the one D.list()[i] is.            *)
(***************************************************************************)
C26_GetItemIsListItem ==
    egGot # None => (egN > egGot[1][1] => egGot[1][2] = egGot[1][1])

(***************************************************************************)
(* C27.  Every request for the next record of repeat(), and of a           *)
(* RoundRobinMux or a batch built on repeat() as in train_dataset, is      *)
(* eventually answered, also when an upstream yields no record at all      *)
(* (every pass over an upstream ends).                                     *)
(***************************************************************************)
C27_RepeatAnswers == (erPc = "asked") ~> (erPc = "idle")

(***************************************************************************)
(* C28.  sample(count) with its default buffer size, over N records, ends  *)
(* without an error and emits min(count, N) records, each an input record  *)
(* and none more often than the input holds it.                            *)
(***************************************************************************)
C28_SampleDefaultBuffer ==
    (shK = Some(SampleBufferSize) /\ shPc \in {"done", "error"}) =>
        /\ shPc = "done"
        /\ \A c \in 0..MaxArg :
              /\ Len(Sample(shOut, c)) = Min(c, Len(shSrc))
              /\ \A x \in Records :
                    Occurrences(Sample(shOut, c), x) <= Occurrences(shSrc, x)

====
